---- MODULE Spec2Model ----
(***************************************************************************)
(* Email-ingestion pipeline of the CRM: the imap-sync edge function        *)
(* (supabase/functions/imap-sync/index.ts) and the caller loop of the      *)
(* settings page.  A mailbox is a sequence of messages (position =         *)
(* sequence number); the emails / contacts / contactNotes tables are the   *)
(* shared state the invocations read and write.                            *)
(***************************************************************************)
EXTENDS Integers, Sequences, FiniteSets, TLC

\* ---------------------------------------------------------------- bounds
MaxBox == 2          \* messages in the mailbox at one time
MaxUid == 2          \* messages ever delivered to the mailbox
MaxDup == 2          \* rows of the emails table beyond one per message
MaxCalls == 33       \* sync calls of one caller loop
BigBox == 32         \* messages of the largest mailbox the caller loop pages over
MaxNotes == 2        \* notes in the table when a further matcher call may start
MaxImports == 3      \* fetchRecordsWithCache calls of one import

\* ------------------------------------------------------ program constants
BatchCap == 20       \* Math.min(batchSizeParam, 20)
DefaultBatch == 50   \* url.searchParams.get("batchSize") || "50"

Runs == {1, 2}       \* invocation slots (cron trigger, manual trigger)
SeqRuns == {1}       \* the slot used when invocations do not overlap

\* ---------------------------------------------------------------- helpers
Min(a, b) == IF a < b THEN a ELSE b
Max(a, b) == IF a > b THEN a ELSE b
Last(s) == s[Len(s)]
Range(s) == {s[i] : i \in DOMAIN s}
Prefix(s, n) == SubSeq(s, 1, n)

\* an optional number (undefined | n) is a sequence of length <= 1
Undefined == <<>>
Some(n) == <<n>>

\* the batchSize query parameter after parseInt: a number, NaN or absent
Absent == [k |-> "absent", v |-> 0]
NaN == [k |-> "nan", v |-> 0]
Num(n) == [k |-> "num", v |-> n]

VARIABLES
    mailbox,      \* INBOX: sequence of messages, index = sequence number
    nextUid,      \* next UID the mail server assigns
    uidReported,  \* whether the adapter's fetch result carries message.uid
    uniqueKeys,   \* whether emails has unique indexes on message_id / imap_uid
    decoder,      \* one call of a header or body decoder: its input and result
    importer,     \* useContactImport: the cache, the backend table, the calls in progress
    secret,       \* Deno.env IMAP_SYNC_AUTH_TOKEN: <<>> when unset, else <<token>>
    matcher,      \* per invocation: locals of matchEmailToContacts, step by step
    sales,        \* active sales users (ids)
    emails,       \* emails table: sequence of rows, index = id
    contacts,     \* contacts table: sequence of rows, index = id
    notes,        \* contactNotes table
    run,          \* per invocation: locals of the handler and of syncEmails
    client        \* EmailSyncButton.handleSync: the caller's resume loop

vars == <<mailbox, nextUid, uidReported, uniqueKeys, decoder, importer, secret, matcher, sales,
          emails, contacts,
          notes, run, client>>

\* ------------------------------------------------ text: strings and bytes
\* A JavaScript string is the sequence of its character codes; a byte array
\* is a sequence of numbers in 0..255.
Ascii ==
    << " ", "!", "quote", "#", "$", "%", "&", "'", "(", ")", "*", "+", ",", "-", ".", "/",
       "0", "1", "2", "3", "4", "5", "6", "7", "8", "9", ":", ";", "<", "=", ">", "?",
       "@", "A", "B", "C", "D", "E", "F", "G", "H", "I", "J", "K", "L", "M", "N", "O",
       "P", "Q", "R", "S", "T", "U", "V", "W", "X", "Y", "Z", "[", "backslash", "]", "^", "_",
       "backtick", "a", "b", "c", "d", "e", "f", "g", "h", "i", "j", "k", "l", "m", "n", "o",
       "p", "q", "r", "s", "t", "u", "v", "w", "x", "y", "z", "{", "|", "}", "~" >>

\* "x".charCodeAt(0)
Code(c) == 31 + CHOOSE i \in DOMAIN Ascii : Ascii[i] = c

\* a string literal, written as the tuple of its characters
Text(t) == [i \in DOMAIN t |-> Code(t[i])]

\* the concatenation of a sequence of strings
RECURSIVE Concat(_)
Concat(ss) == IF ss = <<>> THEN <<>> ELSE Head(ss) \o Concat(Tail(ss))

\* String.prototype.toLowerCase on the ASCII letters
ToLowerCase(s) == [i \in DOMAIN s |-> IF s[i] \in 65..90 THEN s[i] + 32 ELSE s[i]]

\* String.prototype.includes
Includes(s, sub) ==
    \E i \in 0..(Len(s) - Len(sub)) : SubSeq(s, i + 1, i + Len(sub)) = sub

\* the characters the regular expression class \s matches
IsSpace(c) == c \in {9, 10, 11, 12, 13, 32, 160}

\* String.prototype.trim
RECURSIVE Trim(_)
Trim(s) ==
    IF s = <<>> THEN s
    ELSE IF IsSpace(Head(s)) THEN Trim(Tail(s))
    ELSE IF IsSpace(Last(s)) THEN Trim(Prefix(s, Len(s) - 1))
    ELSE s

\* text.replace(/\s/g, '')
StripSpace(s) == SelectSeq(s, LAMBDA c : ~IsSpace(c))

\* atob (forgiving-base64 decode): ok is FALSE where atob throws
\* InvalidCharacterError (a character outside the alphabet, value -1, or a
\* length of 4n + 1); bytes is the binary string it returns
Atob(s) ==
    LET d == SelectSeq(s, LAMBDA c : c \notin {9, 10, 12, 13, 32})
        pad == IF Len(d) % 4 = 0 /\ Len(d) >= 2 /\ d[Len(d)] = 61
               THEN (IF d[Len(d) - 1] = 61 THEN 2 ELSE 1) ELSE 0
        value(c) == CASE c \in 65..90 -> c - 65
                      [] c \in 97..122 -> c - 71
                      [] c \in 48..57 -> c + 4
                      [] c = 43 -> 62
                      [] c = 47 -> 63
                      [] OTHER -> -1
        v == [i \in 1..(Len(d) - pad) |-> value(d[i])]
        six(i) == IF i <= Len(v) THEN v[i] ELSE 0
        byte(j) == LET bit == 8 * (j - 1)
                       k == bit \div 6
                       shift == 4 - (bit % 6)
                   IN ((six(k + 1) * 64 + six(k + 2)) \div (2 ^ shift)) % 256
    IN IF Len(v) % 4 = 1 \/ \E i \in DOMAIN v : v[i] = -1
       THEN [ok |-> FALSE, bytes |-> <<>>]
       ELSE [ok |-> TRUE, bytes |-> [j \in 1..((Len(v) * 6) \div 8) |-> byte(j)]]

\* the UTF-8 decoder of the Encoding Standard from byte i on: an ill-formed
\* sequence becomes U+FFFD and decoding resumes at the offending byte
RECURSIVE Utf8From(_, _)
Utf8From(b, i) ==
    IF i > Len(b) THEN <<>>
    ELSE LET c == b[i]
             need == IF c < 128 THEN 0 ELSE IF c \in 194..223 THEN 1
                     ELSE IF c \in 224..239 THEN 2 ELSE IF c \in 240..244 THEN 3 ELSE -1
             lo(k) == IF k = 1 /\ c = 224 THEN 160 ELSE IF k = 1 /\ c = 240 THEN 144 ELSE 128
             hi(k) == IF k = 1 /\ c = 237 THEN 159 ELSE IF k = 1 /\ c = 244 THEN 143 ELSE 191
             fits(k) == i + k <= Len(b) /\ b[i + k] \in lo(k)..hi(k)
             good == Cardinality({g \in 1..Max(need, 0) : \A k \in 1..g : fits(k)})
             cp == IF need = 1 THEN (c - 192) * 64 + (b[i + 1] - 128)
                   ELSE IF need = 2
                   THEN (c - 224) * 4096 + (b[i + 1] - 128) * 64 + (b[i + 2] - 128)
                   ELSE (c - 240) * 262144 + (b[i + 1] - 128) * 4096
                        + (b[i + 2] - 128) * 64 + (b[i + 3] - 128)
             \* the code point as the code units of a JavaScript string
             units == IF cp > 65535
                      THEN <<55296 + ((cp - 65536) \div 1024),
                             56320 + ((cp - 65536) % 1024)>>
                      ELSE <<cp>>
         IN IF need = 0 THEN <<c>> \o Utf8From(b, i + 1)
            ELSE IF need = -1 THEN <<65533>> \o Utf8From(b, i + 1)
            ELSE IF good = need THEN units \o Utf8From(b, i + need + 1)
            ELSE <<65533>> \o Utf8From(b, i + good + 1)

\* new TextDecoder('utf-8').decode(bytes): not fatal, a leading byte order
\* mark is dropped
Utf8Decode(b) ==
    LET t == Utf8From(b, 1)
    IN IF t # <<>> /\ t[1] = 65279 THEN Tail(t) ELSE t

\* the value of a hexadecimal digit, -1 for any other character
HexValue(c) ==
    CASE c \in 48..57 -> c - 48
      [] c \in 65..70 -> c - 55
      [] c \in 97..102 -> c - 87
      [] OTHER -> -1

\* whether s holds an escape (mark, two hexadecimal digits) at position i
EscapeAt(s, i, mark) ==
    /\ i + 2 <= Len(s)
    /\ s[i] = mark
    /\ HexValue(s[i + 1]) >= 0
    /\ HexValue(s[i + 2]) >= 0

\* .replace(/=([0-9A-F]{2})/gi, (_, hex) => String.fromCharCode(parseInt(hex, 16)))
RECURSIVE QHexFrom(_, _)
QHexFrom(s, i) ==
    IF i > Len(s) THEN <<>>
    ELSE IF EscapeAt(s, i, 61)
    THEN <<16 * HexValue(s[i + 1]) + HexValue(s[i + 2])>> \o QHexFrom(s, i + 3)
    ELSE <<s[i]>> \o QHexFrom(s, i + 1)

\* .replace(/=\r?\n/g, '')
RECURSIVE SoftBreaksFrom(_, _)
SoftBreaksFrom(s, i) ==
    IF i > Len(s) THEN <<>>
    ELSE IF s[i] = 61 /\ i + 1 <= Len(s) /\ s[i + 1] = 10 THEN SoftBreaksFrom(s, i + 2)
    ELSE IF s[i] = 61 /\ i + 2 <= Len(s) /\ s[i + 1] = 13 /\ s[i + 2] = 10
    THEN SoftBreaksFrom(s, i + 3)
    ELSE <<s[i]>> \o SoftBreaksFrom(s, i + 1)

\* decoded.replace(/=\?/g, '%')
RECURSIVE ReplaceEqQ(_, _)
ReplaceEqQ(s, i) ==
    IF i > Len(s) THEN <<>>
    ELSE IF s[i] = 61 /\ i + 1 <= Len(s) /\ s[i + 1] = 63
    THEN <<37>> \o ReplaceEqQ(s, i + 2)
    ELSE <<s[i]>> \o ReplaceEqQ(s, i + 1)

\* decodeURIComponent: every run of %XX escapes is replaced by the text its
\* bytes encode; ok is FALSE where it throws URIError (a % that does not start
\* an escape, or escapes that are not well-formed UTF-8)
RECURSIVE DecodeURIComponent(_, _)
DecodeURIComponent(s, i) ==
    IF i > Len(s) THEN [ok |-> TRUE, text |-> <<>>]
    ELSE IF s[i] # 37 THEN
         LET rest == DecodeURIComponent(s, i + 1)
         IN [ok |-> rest.ok, text |-> <<s[i]>> \o rest.text]
    ELSE LET n == Cardinality({g \in 1..Len(s) : \A k \in 0..(g - 1) :
                                  EscapeAt(s, i + 3 * k, 37)})
             bytes == [k \in 1..n |-> 16 * HexValue(s[i + 3 * k - 2])
                                     + HexValue(s[i + 3 * k - 1])]
             rest == DecodeURIComponent(s, i + 3 * n)
         IN IF n = 0 \/ 65533 \in Range(Utf8From(bytes, 1))
            THEN [ok |-> FALSE, text |-> <<>>]
            ELSE [ok |-> rest.ok, text |-> Utf8From(bytes, 1) \o rest.text]

\* no decoder call is in progress
IdleDecoder == [pc |-> "idle", call |-> <<>>, out |-> <<>>]

\* locals of one fetchRecordsWithCache call
IdleFetch ==
    [pc |-> "idle", names |-> <<>>, trimmedNames |-> <<>>, uncachedRecordNames |-> <<>>,
     response |-> <<>>, pending |-> {}, created |-> {}, result |-> {}]

\* companiesCache (a Map from name to record) as the set of its entries, the
\* companies resource of the backend as the sequence of its records' names
\* (index = id), and the log of the dataProvider.create calls
IdleImporter ==
    [cache |-> {}, table |-> <<>>, creates |-> <<>>, started |-> 0,
     fetch |-> [c \in Runs |-> IdleFetch]]

\* ------------------------------------------------------------ mailbox side
\* A message as the server holds it.  env is the shape of its envelope:
\* "ok", "noenv" (no envelope), "nofrom", "noto" (empty To list), "badaddr"
\* (a null entry in the To list).  age is its date relative to the two SINCE
\* floors: "today", "year" (within 12 months), "old".
Msg(mid, env, age, frm, to) ==
    [mid |-> mid, env |-> env, age |-> age, frm |-> frm, to |-> to]

Templates ==
    { Msg(1, "ok", "today", "s@x.com", <<"a@x.com">>),
      Msg(2, "ok", "year", "s@x.com", <<"z@x.com">>),
      Msg(0, "ok", "today", "s@x.com", <<"a@x.com">>),
      Msg(1, "noto", "today", "s@x.com", <<>>),
      Msg(2, "badaddr", "today", "s@x.com", <<"z@x.com">>) }

WithUid(t, u) ==
    [uid |-> u, mid |-> t.mid, env |-> t.env, age |-> t.age, frm |-> t.frm, to |-> t.to]

\* client.search({since: dateStr}): ascending sequence numbers of the
\* messages on or after the date floor of the mode
InSince(mode, m) ==
    IF mode = "full" THEN m.age \in {"today", "year"} ELSE m.age = "today"

RECURSIVE SearchFrom(_, _, _)
SearchFrom(box, mode, i) ==
    IF i > Len(box) THEN <<>>
    ELSE (IF InSince(mode, box[i]) THEN <<i>> ELSE <<>>) \o SearchFrom(box, mode, i + 1)

Search(box, mode) == SearchFrom(box, mode, 1)

\* client.fetch("lo:hi", ...): every message whose sequence number lies in
\* the range, in mailbox order
FetchedMsg(box, s) ==
    [seq |-> s, uid |-> IF uidReported THEN box[s].uid ELSE 0, src |-> box[s].uid,
     mid |-> box[s].mid, env |-> box[s].env, frm |-> box[s].frm, to |-> box[s].to]

Fetch(box, lo, hi) ==
    [k \in 1..Max(Min(hi, Len(box)) - lo + 1, 0) |-> FetchedMsg(box, lo + k - 1)]

\* ------------------------------------------------------------ the handler
\* const batchSize = Math.min(parseInt(param || "50"), 20)
ClampBatchSize(p) ==
    IF p.k = "absent" THEN Num(Min(DefaultBatch, BatchCap))
    ELSE IF p.k = "nan" THEN NaN
    ELSE Num(Min(p.v, BatchCap))

FilterByOffsetGe(ids, offset) ==
    IF offset = Undefined \/ offset[1] = 0 THEN ids
    ELSE SelectSeq(ids, LAMBDA id : id >= offset[1])

\* messageIds.filter(id => id > offset), applied only when offset is truthy
FilterByOffset(ids, offset) ==
    IF offset = Undefined \/ offset[1] = 0 THEN ids
    ELSE SelectSeq(ids, LAMBDA id : id > offset[1])

\* Array.prototype.slice(0, end)
SliceEnd(len, b) ==
    IF b.k = "nan" THEN 0
    ELSE IF b.v < 0 THEN Max(len + b.v, 0)
    ELSE Min(b.v, len)

SelectBatch(cands, b) == Prefix(cands, SliceEnd(Len(cands), b))

HasMoreGe(cands, b) == b.k = "num" /\ Len(cands) >= b.v

\* hasMore = idsToProcess.length > batchSize
HasMore(cands, b) == b.k = "num" /\ Len(cands) > b.v

NextOffsetFirst(cands, b) ==
    IF HasMore(cands, b) /\ SelectBatch(cands, b) # <<>>
    THEN Some(SelectBatch(cands, b)[1])
    ELSE Undefined

NextOffsetAlways(cands, b) ==
    IF SelectBatch(cands, b) # <<>> THEN Some(Last(SelectBatch(cands, b)))
    ELSE Undefined

\* nextOffset = hasMore ? messagesToProcess[messagesToProcess.length - 1] : undefined
NextOffset(cands, b) ==
    IF HasMore(cands, b) /\ SelectBatch(cands, b) # <<>>
    THEN Some(Last(SelectBatch(cands, b)))
    ELSE Undefined

IdleRun ==
    [pc |-> "idle", mode |-> "incremental", offset |-> Undefined, bparam |-> Absent,
     fail |-> "none", ids |-> <<>>, cands |-> <<>>, batch |-> <<>>, msgs |-> <<>>,
     i |-> 0, rowId |-> 0, processed |-> <<>>, errors |-> <<>>, totalFound |-> 0,
     nextOffset |-> Undefined, hasMore |-> FALSE, stored |-> 0, matched |-> 0,
     ins |-> {}, disconnects |-> 0, byClient |-> FALSE, second |-> FALSE,
     firstClean |-> FALSE, method |-> "POST", auth |-> <<>>, connects |-> 0,
     action |-> "sync", rows |-> <<>>, killed |-> FALSE]

\* the object syncEmails returns
Result(r) ==
    [processed |-> run[r].processed, errors |-> run[r].errors,
     totalFound |-> run[r].totalFound, nextOffset |-> run[r].nextOffset,
     hasMore |-> run[r].hasMore, stored |-> run[r].stored, matched |-> run[r].matched]

\* ------------------------------------------------------ persistence gateway
\* const messageId = message.envelope.messageId || `imap-${seq}`
MessageId(m) == IF m.mid # 0 THEN <<"hdr", m.mid>> ELSE <<"imap", m.seq>>

\* const imapUid = message.uid || seq
ImapUid(m) == IF m.uid # 0 THEN m.uid ELSE m.seq

\* .or(`message_id.eq.${messageId},imap_uid.eq.${imapUid}`)
Matching(m) ==
    {id \in DOMAIN emails :
        \/ emails[id].message_id = MessageId(m)
        \/ emails[id].imap_uid = ImapUid(m)}

\* .maybeSingle(): data is the row when exactly one row matches, and null
\* when none matches or when several match (the error is not looked at)
MaybeSingle(S) == IF Cardinality(S) = 1 THEN S ELSE {}

ExistingEmail(m) == MaybeSingle(Matching(m))

\* the insert is rejected with a duplicate-key error: the table has unique
\* indexes and a row with this message_id or imap_uid is there already
DuplicateKey(m) == uniqueKeys /\ Matching(m) # {}

NewRowProcessed(m) ==
    [message_id |-> MessageId(m), imap_uid |-> ImapUid(m), from_email |-> m.frm,
     to_emails |-> m.to, processed |-> TRUE, contact_id |-> 0,
     sales_id |-> sales[1], src |-> m.src]

\* the row of the insert: processed: false, and no contact_id (0 for null)
NewRow(m) ==
    [message_id |-> MessageId(m), imap_uid |-> ImapUid(m), from_email |-> m.frm,
     to_emails |-> m.to, processed |-> FALSE, contact_id |-> 0,
     sales_id |-> sales[1], src |-> m.src]

\* rows beyond one per mailbox message
Surplus == Len(emails) - Cardinality({emails[k].src : k \in DOMAIN emails})

\* ----------------------------------------------------------- contact matcher
\* e.toLowerCase().trim() on the addresses the model uses
Normalize(e) ==
    CASE e = "A@x.com" -> "a@x.com"
      [] e = " a@x.com " -> "a@x.com"
      [] OTHER -> e

\* new Set([fromEmail, ...toEmails.map(t => t.email)]) in insertion order
RECURSIVE Dedup(_)
Dedup(s) ==
    IF s = <<>> THEN <<>>
    ELSE LET rest == Dedup(Prefix(s, Len(s) - 1))
         IN IF Last(s) \in Range(rest) THEN rest ELSE Append(rest, Last(s))

Participants(frm, to) == Dedup(<<frm>> \o to)

HoldersAny(e) == DOMAIN contacts

\* .contains("email_jsonb", [{email}]).maybeSingle()
Holders(e) == {c \in DOMAIN contacts : e \in contacts[c].emails}

RECURSIVE FindFrom(_, _)
FindFrom(ps, i) ==
    IF i > Len(ps) THEN 0
    ELSE LET hit == MaybeSingle(Holders(Normalize(ps[i])))
         IN IF hit # {} THEN CHOOSE c \in hit : TRUE ELSE FindFrom(ps, i + 1)

\* findContactForEmail: id of the first participant's contact, 0 for null
FindContactForEmail(ps) == FindFrom(ps, 1)

\* matchEmailToContacts(emailId, fromEmail, toEmails, ...); noteFail is the
\* outcome of the contactNotes insert
MatchEmailToContacts(emailId, frm, to, noteFail) ==
    LET c == FindContactForEmail(Participants(frm, to))
    IN IF c = 0
       THEN UNCHANGED <<emails, contacts, notes>>
       ELSE /\ notes' = IF noteFail THEN notes
                        ELSE Append(notes, [contact_id |-> c, email |-> emailId])
            /\ contacts' = IF noteFail THEN contacts
                           ELSE [contacts EXCEPT ![c].last_seen = "now"]
            /\ emails' = [emails EXCEPT ![emailId].contact_id = c,
                                        ![emailId].processed = TRUE]

\* locals of one matchEmailToContacts call
IdleMatcher ==
    [pc |-> "idle", impl |-> "current", emailId |-> 0, toNull |-> FALSE,
     ps |-> <<>>, k |-> 0, contact |-> 0, created |-> <<>>, seen |-> {},
     links |-> <<>>, lookupErr |-> FALSE, faulted |-> FALSE]

\* Deno.env.get("IMAP_SYNC_AUTH_TOKEN")
NoSecret == <<>>

\* ------------------------------------------------------------- environment
Idle == \A r \in Runs : run[r].pc = "idle"

\* a message arrives in the INBOX
Deliver(t) ==
    /\ Idle
    /\ client.pc # "calling"
    /\ Len(mailbox) < MaxBox
    /\ nextUid <= MaxUid
    /\ mailbox' = Append(mailbox, WithUid(t, nextUid))
    /\ nextUid' = nextUid + 1
    /\ UNCHANGED <<uidReported, uniqueKeys, decoder, importer, secret, matcher, sales, emails, contacts, notes, run,
                   client>>

\* a message is deleted and expunged: the later ones are renumbered
Expunge(k) ==
    /\ Idle
    /\ client.pc # "calling"
    /\ k \in DOMAIN mailbox
    /\ mailbox' = Prefix(mailbox, k - 1) \o SubSeq(mailbox, k + 1, Len(mailbox))
    /\ UNCHANGED <<nextUid, uidReported, uniqueKeys, decoder, importer, secret, matcher, sales, emails, contacts,
                   notes, run, client>>

\* ------------------------------------------------------------- syncEmails
\* Deno.serve handler, action = sync, up to the first await of syncEmails
BeginRun(mode, offset, bparam, byClient) ==
    IF sales = <<>>
    THEN [IdleRun EXCEPT !.pc = "done", !.mode = mode, !.offset = offset,
                         !.bparam = bparam, !.byClient = byClient,
                         !.fail = "nosales", !.errors = <<<<"nosales", 0>>>>]
    ELSE [IdleRun EXCEPT !.pc = "open", !.mode = mode, !.offset = offset,
                         !.bparam = bparam, !.byClient = byClient]

Begin(r, mode, offset, bparam, byClient) ==
    /\ run[r].pc = "idle"
    /\ run' = [run EXCEPT ![r] = BeginRun(mode, offset, bparam, byClient)]

CatchKeepPaging(r, kind, total) ==
    LET cands == FilterByOffset(Search(mailbox, run[r].mode), run[r].offset)
        b == ClampBatchSize(run[r].bparam)
    IN [run[r] EXCEPT !.pc = "done", !.fail = kind, !.totalFound = total,
                      !.errors = Append(run[r].errors, <<"imap", 0>>),
                      !.disconnects = run[r].disconnects + 1,
                      !.nextOffset = IF kind = "fetch" THEN NextOffset(cands, b)
                                     ELSE Undefined,
                      !.hasMore = kind = "fetch" /\ HasMore(cands, b),
                      !.stored = 0, !.matched = 0]

CatchNoDisconnect(r, kind, total) ==
    [run[r] EXCEPT !.pc = "done", !.fail = kind, !.totalFound = total,
                   !.errors = Append(run[r].errors, <<"imap", 0>>),
                   !.nextOffset = Undefined, !.hasMore = FALSE,
                   !.stored = 0, !.matched = 0]

\* the catch block of syncEmails
Catch(r, kind, total) ==
    [run[r] EXCEPT !.pc = "done", !.fail = kind, !.totalFound = total,
                   !.errors = Append(run[r].errors, <<"imap", 0>>),
                   !.disconnects = run[r].disconnects + 1,
                   !.nextOffset = Undefined, !.hasMore = FALSE,
                   !.stored = 0, !.matched = 0]

\* connect .. fetch; f is where the session fails: "session" (connect,
\* authenticate, selectMailbox or search throws), "fetch", or "none"
Open(r, f) ==
    LET ids == Search(mailbox, run[r].mode)
        cands == FilterByOffset(ids, run[r].offset)
        b == ClampBatchSize(run[r].bparam)
        batch == SelectBatch(cands, b)
    IN
    /\ run[r].pc = "open"
    /\ f \in {"session", "fetch", "none"}
    /\ f = "fetch" => batch # <<>>
    /\ run' = [run EXCEPT ![r] = [(
         IF f = "session" THEN Catch(r, "session", 0)
         ELSE IF ids = <<>> THEN
            [run[r] EXCEPT !.pc = "done", !.disconnects = 1, !.ids = ids]
         ELSE IF cands = <<>> THEN
            [run[r] EXCEPT !.pc = "done", !.disconnects = 1, !.ids = ids,
                           !.totalFound = Len(ids)]
         ELSE IF batch = <<>> \/ f = "fetch" THEN
            \* an empty batch makes the range the text "undefined", which the
            \* server rejects
            [Catch(r, "fetch", Len(ids)) EXCEPT !.ids = ids, !.cands = cands,
                                                 !.batch = batch]
         ELSE
            [run[r] EXCEPT !.pc = "loop", !.ids = ids, !.cands = cands,
                           !.batch = batch, !.totalFound = Len(ids),
                           !.hasMore = HasMore(cands, b),
                           !.nextOffset = NextOffset(cands, b),
                           !.msgs = Fetch(mailbox, batch[1], Last(batch)),
                           !.i = 1]) EXCEPT !.connects = 1]]
    /\ UNCHANGED <<mailbox, nextUid, uidReported, uniqueKeys, decoder, importer, secret, matcher, sales, emails,
                   contacts, notes, client>>

CheckReportsSkipped(r) ==
    LET m == run[r].msgs[run[r].i] IN
    /\ run[r].pc = "loop"
    /\ run[r].i <= Len(run[r].msgs)
    /\ run' = [run EXCEPT ![r] =
         IF m.env \in {"noenv", "nofrom", "noto"} \/ ExistingEmail(m) # {} THEN
            [run[r] EXCEPT !.processed = Append(run[r].processed, m.seq),
                           !.i = run[r].i + 1]
         ELSE [run[r] EXCEPT !.pc = "insert"]]
    /\ UNCHANGED <<mailbox, nextUid, uidReported, uniqueKeys, decoder, importer, secret, matcher, sales, emails,
                   contacts, notes, client>>

\* top of the loop body: envelope tests and the existence check
Check(r) ==
    LET m == run[r].msgs[run[r].i] IN
    /\ run[r].pc = "loop"
    /\ run[r].i <= Len(run[r].msgs)
    /\ run' = [run EXCEPT ![r] =
         IF m.env \in {"noenv", "nofrom", "noto"} THEN
            [run[r] EXCEPT !.i = run[r].i + 1]
         ELSE IF ExistingEmail(m) # {} THEN
            [run[r] EXCEPT !.processed = Append(run[r].processed, m.seq),
                           !.i = run[r].i + 1]
         ELSE [run[r] EXCEPT !.pc = "insert"]]
    /\ UNCHANGED <<mailbox, nextUid, uidReported, uniqueKeys, decoder, importer, secret, matcher, sales, emails,
                   contacts, notes, client>>

OnMessageErrorAbort(r, tag) ==
    [run[r] EXCEPT !.pc = "loop", !.i = Len(run[r].msgs) + 1,
                   !.errors = Append(run[r].errors, <<tag, run[r].msgs[run[r].i].seq>>)]

\* what the loop does with a message whose processing failed
OnMessageError(r, tag) ==
    [run[r] EXCEPT !.pc = "loop", !.i = run[r].i + 1,
                   !.errors = Append(run[r].errors, <<tag, run[r].msgs[run[r].i].seq>>)]

\* building the row and inserting it; fault is a storage failure that is
\* not a key conflict
Insert(r, fault) ==
    LET m == run[r].msgs[run[r].i]
        id == Len(emails) + 1
    IN
    /\ run[r].pc = "insert"
    /\ fault => m.env # "badaddr" /\ ~DuplicateKey(m)
    /\ (\E k \in DOMAIN emails : emails[k].src = m.src) => Surplus < MaxDup
    /\ IF m.env = "badaddr" THEN
          \* toAddresses.map dereferences the null entry
          /\ run' = [run EXCEPT ![r] = OnMessageError(r, "proc")]
          /\ UNCHANGED emails
       ELSE IF DuplicateKey(m) THEN
          \* storeError: duplicate key value violates unique constraint
          /\ run' = [run EXCEPT ![r] = OnMessageError(r, "dupkey")]
          /\ UNCHANGED emails
       ELSE IF fault THEN
          /\ run' = [run EXCEPT ![r] = OnMessageError(r, "store")]
          /\ UNCHANGED emails
       ELSE
          /\ emails' = Append(emails, NewRow(m))
          /\ run' = [run EXCEPT ![r] =
                [run[r] EXCEPT !.pc = "match", !.rowId = id,
                               !.stored = run[r].stored + 1,
                               !.ins = run[r].ins \cup {id}]]
    /\ UNCHANGED <<mailbox, nextUid, uidReported, uniqueKeys, decoder, importer, secret, matcher, sales, contacts,
                   notes, client>>

\* await matchEmailToContacts(...); matched++; processed.push(String(seq))
Match(r, noteFail) ==
    LET m == run[r].msgs[run[r].i] IN
    /\ run[r].pc = "match"
    /\ noteFail => FindContactForEmail(Participants(m.frm, m.to)) # 0
    /\ MatchEmailToContacts(run[r].rowId, m.frm, m.to, noteFail)
    /\ run' = [run EXCEPT ![r] =
          [run[r] EXCEPT !.pc = "loop", !.i = run[r].i + 1,
                         !.matched = run[r].matched + 1,
                         !.processed = Append(run[r].processed, m.seq)]]
    /\ UNCHANGED <<mailbox, nextUid, uidReported, uniqueKeys, decoder, importer, secret, matcher, sales,
                   client>>

\* after the loop: disconnect and return
Finish(r) ==
    /\ run[r].pc = "loop"
    /\ run[r].i > Len(run[r].msgs)
    /\ run' = [run EXCEPT ![r] =
          [run[r] EXCEPT !.pc = "done", !.disconnects = run[r].disconnects + 1]]
    /\ UNCHANGED <<mailbox, nextUid, uidReported, uniqueKeys, decoder, importer, secret, matcher, sales, emails,
                   contacts, notes, client>>

\* the response has been sent
Return(r) ==
    /\ run[r].pc = "done"
    /\ ~run[r].byClient
    /\ run' = [run EXCEPT ![r] = IdleRun]
    /\ UNCHANGED <<mailbox, nextUid, uidReported, uniqueKeys, decoder, importer, secret, matcher, sales, emails,
                   contacts, notes, client>>

\* ------------------------------------------- EmailSyncButton.handleSync loop
IdleClient ==
    [pc |-> "idle", bparam |-> Absent, offset |-> Undefined, hasMore |-> FALSE,
     totalProcessed |-> 0, totalErrors |-> 0, calls |-> 0, firstTotal |-> 0,
     selected |-> 0, broke |-> FALSE]

\* handleSync up to the loop; bparam is the batchSize the data provider sends
\* with every call of this loop
ClientStart(bparam) ==
    /\ client.pc = "idle"
    /\ Idle
    /\ client' = [IdleClient EXCEPT !.pc = "loop", !.bparam = bparam, !.hasMore = TRUE]
    /\ UNCHANGED <<mailbox, nextUid, uidReported, uniqueKeys, decoder, importer, secret, matcher, sales, emails,
                   contacts, notes, run>>

\* syncBatch("full", offset): the request is sent
ClientCall(r) ==
    /\ client.pc = "loop"
    /\ client.hasMore
    /\ client.calls < MaxCalls
    /\ Idle
    /\ Begin(r, "full", client.offset, client.bparam, TRUE)
    /\ client' = [client EXCEPT !.pc = "calling", !.calls = client.calls + 1]
    /\ UNCHANGED <<mailbox, nextUid, uidReported, uniqueKeys, decoder, importer, secret, matcher, sales, emails,
                   contacts, notes>>

\* the response arrives: totals, hasMore and offset are updated
ClientReceive(r) ==
    /\ client.pc = "calling"
    /\ run[r].pc = "done"
    /\ run[r].byClient
    /\ client' = [client EXCEPT
          !.pc = IF run[r].hasMore THEN "loop" ELSE "finished",
          !.totalProcessed = client.totalProcessed + Len(run[r].processed),
          !.totalErrors = client.totalErrors + Len(run[r].errors),
          !.hasMore = run[r].hasMore,
          !.offset = run[r].nextOffset,
          !.firstTotal = IF client.calls = 1 THEN run[r].totalFound
                         ELSE client.firstTotal,
          !.selected = client.selected +
                       (IF run[r].fail = "none" THEN Len(run[r].batch) ELSE 0),
          !.broke = client.broke \/ run[r].fail # "none"]
    /\ run' = [run EXCEPT ![r] = IdleRun]
    /\ UNCHANGED <<mailbox, nextUid, uidReported, uniqueKeys, decoder, importer, secret, matcher, sales, emails,
                   contacts, notes>>

\* the notification has been shown; the button is enabled again
ClientReset ==
    /\ client.pc = "finished"
    /\ client' = IdleClient
    /\ UNCHANGED <<mailbox, nextUid, uidReported, uniqueKeys, decoder, importer, secret, matcher, sales, emails,
                   contacts, notes, run>>

\* ------------------------------------------------------------ request inputs
Modes == {"full", "incremental"}
Offsets == {Undefined, Some(0), Some(1)}
BatchParams == {Absent, NaN, Num(-1), Num(0), Num(1)}

\* a request from the cron trigger or any other HTTP caller
Request(r, mode, offset, bparam) ==
    /\ client.pc # "calling"
    /\ Begin(r, mode, offset, bparam, FALSE)
    /\ UNCHANGED <<mailbox, nextUid, uidReported, uniqueKeys, decoder, importer, secret, matcher, sales, emails,
                   contacts, notes, client>>

Directory == << [emails |-> {"a@x.com"}, last_seen |-> "t0"] >>

Init ==
    /\ mailbox = <<>>
    /\ nextUid = 1
    /\ uidReported \in BOOLEAN
    /\ uniqueKeys \in BOOLEAN
    /\ importer = IdleImporter
    /\ decoder = IdleDecoder
    /\ secret = NoSecret
    /\ matcher = [r \in Runs |-> IdleMatcher]
    /\ sales \in {<<1>>, <<>>}
    /\ emails = <<>>
    /\ contacts = Directory
    /\ notes = <<>>
    /\ run = [r \in Runs |-> IdleRun]
    /\ client = IdleClient

\* the caller repeats the request it has just got the answer to
Again(r) ==
    /\ run[r].pc = "done"
    /\ ~run[r].byClient
    /\ ~run[r].second
    /\ run' = [run EXCEPT ![r] =
          [BeginRun(run[r].mode, run[r].offset, run[r].bparam, FALSE)
             EXCEPT !.second = TRUE, !.firstClean = (run[r].errors = <<>>)]]
    /\ UNCHANGED <<mailbox, nextUid, uidReported, uniqueKeys, decoder, importer, secret, matcher, sales, emails,
                   contacts, notes, client>>

Step(r) ==
    \/ Open(r, "none")
    \/ Open(r, "session")
    \/ Open(r, "fetch")
    \/ Check(r)
    \/ Insert(r, FALSE)
    \/ Insert(r, TRUE)
    \/ Match(r, FALSE)
    \/ Match(r, TRUE)
    \/ Finish(r)
    \/ Return(r)
    \/ Again(r)

\* invocations one after the other over a mailbox that changes between them
Next ==
    \/ \E t \in Templates : Deliver(t)
    \/ \E k \in 1..MaxBox : Expunge(k)
    \/ \E r \in SeqRuns, mode \in Modes, offset \in Offsets, bparam \in BatchParams :
          Idle /\ Request(r, mode, offset, bparam)
    \/ \E r \in SeqRuns : Step(r)

Spec == Init /\ [][Next]_vars

\* ------------------------------------------------- overlapping invocations
\* a mailbox of n messages that does not change
StaticBoxes(n) ==
    { [k \in 1..n |-> WithUid(f[k], k)] : f \in [1..n -> Templates] }

InitConc ==
    /\ mailbox \in UNION {StaticBoxes(n) : n \in 1..MaxBox}
    /\ nextUid = Len(mailbox) + 1
    /\ uidReported \in BOOLEAN
    /\ uniqueKeys \in BOOLEAN
    /\ importer = IdleImporter
    /\ decoder = IdleDecoder
    /\ secret = NoSecret
    /\ matcher = [r \in Runs |-> IdleMatcher]
    /\ sales = <<1>>
    /\ emails = <<>>
    /\ contacts = Directory
    /\ notes = <<>>
    /\ run = [r \in Runs |-> IdleRun]
    /\ client = IdleClient

\* the cron trigger (slot 1: no parameters) and a manual trigger (slot 2:
\* mode=full), each free to start while the other invocation is in progress;
\* no operation fails
NextConc ==
    \/ Request(1, "incremental", Undefined, Absent)
    \/ Request(2, "full", Undefined, Absent)
    \/ \E r \in Runs :
          \/ Open(r, "none")
          \/ Check(r)
          \/ Insert(r, FALSE)
          \/ Match(r, FALSE)
          \/ Finish(r)
          \/ Return(r)

SpecConc == InitConc /\ [][NextConc]_vars

\* ------------------------------------------------- the caller's resume loop
\* mailboxes the loop pages over: every message usable, or a mix in which
\* every third message is older than 12 months, every fifth has an empty To
\* list, every seventh a null To entry and every fourth no Message-ID header
PlainBox(n) ==
    [k \in 1..n |-> WithUid(Msg(k, "ok", "year", "s@x.com", <<"z@x.com">>), k)]

MixedBox(n) ==
    [k \in 1..n |->
        WithUid(Msg(IF k % 4 = 1 THEN 0 ELSE k,
                    IF k % 5 = 2 THEN "noto" ELSE IF k % 7 = 4 THEN "badaddr" ELSE "ok",
                    IF k % 3 = 0 THEN "old" ELSE IF k % 2 = 0 THEN "year" ELSE "today",
                    "s@x.com",
                    IF k % 5 = 2 THEN <<>> ELSE <<"a@x.com">>), k)]

PageSizes == {2, 3, 5, BigBox}
PageParams == {Absent, NaN, Num(-1), Num(0), Num(1), Num(2)}

InitPage ==
    /\ mailbox \in {PlainBox(n) : n \in PageSizes} \cup {MixedBox(n) : n \in PageSizes}
    /\ nextUid = Len(mailbox) + 1
    /\ uidReported \in BOOLEAN
    /\ uniqueKeys \in BOOLEAN
    /\ importer = IdleImporter
    /\ decoder = IdleDecoder
    /\ secret = NoSecret
    /\ matcher = [r \in Runs |-> IdleMatcher]
    /\ sales = <<1>>
    /\ emails = <<>>
    /\ contacts = Directory
    /\ notes = <<>>
    /\ run = [r \in Runs |-> IdleRun]
    /\ client = IdleClient

\* the settings page drives the endpoint over a mailbox that does not change;
\* the session may fail, the per-message writes do not
NextPage ==
    \/ \E bparam \in PageParams : ClientStart(bparam)
    \/ \E r \in SeqRuns :
          \/ ClientCall(r)
          \/ ClientReceive(r)
          \/ Open(r, "none")
          \/ Open(r, "session")
          \/ Open(r, "fetch")
          \/ Check(r)
          \/ Insert(r, FALSE)
          \/ Match(r, FALSE)
          \/ Finish(r)
    \/ ClientReset

SpecPage == InitPage /\ [][NextPage]_vars

\* one click of the button: the loop from its start to its notification
NextLoop ==
    \/ \E bparam \in PageParams : ClientStart(bparam)
    \/ \E r \in SeqRuns :
          \/ ClientCall(r)
          \/ ClientReceive(r)
          \/ Open(r, "none")
          \/ Open(r, "session")
          \/ Open(r, "fetch")
          \/ Check(r)
          \/ Insert(r, FALSE)
          \/ Match(r, FALSE)
          \/ Finish(r)

\* every pending step is eventually taken: the await of handleSync resolves
\* and the edge function runs to its return
SpecLoop == InitPage /\ [][NextLoop]_vars /\ WF_vars(NextLoop)

\* ------------------------------------------------------- the HTTP endpoint
\* req.headers.get("Authorization"): <<>> when the header is absent
NoHeader == <<>>

\* `Bearer ${expectedAuth}`
Bearer(token) == "Bearer " \o token

AuthorizedAlways(auth) == TRUE

\* lines 92-102: the check is made only when the token is set to a non-empty
\* text, and compares the whole header
Authorized(auth) ==
    \/ secret = NoSecret
    \/ secret[1] = ""
    \/ auth # NoHeader /\ auth[1] = Bearer(secret[1])

\* the Deno.serve handler from the first line to the call of syncEmails
Serve(r, method, auth, mode, offset, bparam) ==
    /\ run[r].pc = "idle"
    /\ client.pc # "calling"
    /\ run' = [run EXCEPT ![r] =
          [(IF method = "OPTIONS" THEN
               [IdleRun EXCEPT !.pc = "done", !.fail = "options"]
            ELSE IF ~Authorized(auth) THEN
               [IdleRun EXCEPT !.pc = "done", !.fail = "unauthorized"]
            ELSE BeginRun(mode, offset, bparam, FALSE))
           EXCEPT !.method = method, !.auth = auth]]
    /\ UNCHANGED <<mailbox, nextUid, uidReported, uniqueKeys, decoder, importer, secret, matcher,
                   sales, emails, contacts, notes, client>>

\* an exception leaves syncEmails before its try block is entered (the sales
\* query rejects or the client cannot be constructed): the handler's catch
Throw(r) ==
    /\ run[r].pc = "open"
    /\ run' = [run EXCEPT ![r] = [run[r] EXCEPT !.pc = "done", !.fail = "thrown"]]
    /\ UNCHANGED <<mailbox, nextUid, uidReported, uniqueKeys, decoder, importer, secret, matcher,
                   sales, emails, contacts, notes, client>>

\* the status of the Response the handler returns
ResponseStatus(r) ==
    CASE run[r].fail = "options" -> 204
      [] run[r].fail = "unauthorized" -> 401
      [] run[r].fail = "thrown" -> 500
      [] OTHER -> 200

\* client.disconnect() itself throws on one of the three normal paths (empty
\* search, empty page, end of the loop): the catch block runs and calls it again
DisconnectThrows(r) ==
    LET ids == Search(mailbox, run[r].mode)
        cands == FilterByOffset(ids, run[r].offset)
    IN
    /\ \/ run[r].pc = "open" /\ (ids = <<>> \/ cands = <<>>)
       \/ run[r].pc = "loop" /\ run[r].i > Len(run[r].msgs)
    /\ run' = [run EXCEPT ![r] =
          [Catch(r, "disconnect", Len(ids)) EXCEPT
              !.connects = 1, !.disconnects = run[r].disconnects + 2]]
    /\ UNCHANGED <<mailbox, nextUid, uidReported, uniqueKeys, decoder, importer, secret, matcher,
                   sales, emails, contacts, notes, client>>

\* requests the endpoint is sent
Methods == {"POST", "OPTIONS"}
AuthHeaders ==
    {NoHeader, <<Bearer("s3cret")>>, <<Bearer("wrong")>>, <<"s3cret">>,
     <<"bearer s3cret">>}
Secrets == {NoSecret, <<"">>, <<"s3cret">>}

HttpTemplates ==
    { Msg(1, "ok", "today", "s@x.com", <<"a@x.com">>),
      Msg(2, "badaddr", "today", "s@x.com", <<"z@x.com">>) }

HttpBoxes(n) ==
    { [k \in 1..n |-> WithUid(f[k], k)] : f \in [1..n -> HttpTemplates] }

InitHttp ==
    /\ mailbox \in UNION {HttpBoxes(n) : n \in 0..MaxBox}
    /\ nextUid = Len(mailbox) + 1
    /\ uidReported = TRUE
    /\ uniqueKeys = FALSE
    /\ importer = IdleImporter
    /\ decoder = IdleDecoder
    /\ secret \in Secrets
    /\ matcher = [r \in Runs |-> IdleMatcher]
    /\ sales \in {<<1>>, <<>>}
    /\ emails = <<>>
    /\ contacts = Directory
    /\ notes = <<>>
    /\ run = [r \in Runs |-> IdleRun]
    /\ client = IdleClient

\* requests of any caller, one at a time, over a mailbox that does not change;
\* the session, the fetch, the disconnect and the per-message writes may fail
NextHttp ==
    \/ \E r \in SeqRuns, method \in Methods, auth \in AuthHeaders, mode \in Modes,
          offset \in {Undefined, Some(1)}, bparam \in {Absent, Num(1)} :
          Serve(r, method, auth, mode, offset, bparam)
    \/ \E r \in SeqRuns :
          \/ Throw(r)
          \/ Open(r, "none")
          \/ Open(r, "session")
          \/ Open(r, "fetch")
          \/ DisconnectThrows(r)
          \/ Check(r)
          \/ Insert(r, FALSE)
          \/ Insert(r, TRUE)
          \/ Match(r, FALSE)
          \/ Match(r, TRUE)
          \/ Finish(r)
          \/ Return(r)

SpecHttp == InitHttp /\ [][NextHttp]_vars

\* ------------------------------------- matchEmailToContacts, step by step
\* The two implementations the repository holds: "current" (imap-sync/index.ts:
\* sender and recipients, lower-cased and trimmed, first hit ends the search)
\* and "legacy" (the earlier listing: every recipient as written, in turn).
Impls == {"current", "legacy"}

\* the addresses the call looks up, in order
Collected(impl, frm, to) ==
    IF impl = "current"
    THEN [k \in DOMAIN Participants(frm, to) |-> Normalize(Participants(frm, to)[k])]
    ELSE to

\* lines 543-548: the note text and the participant set are built before the
\* try block is entered; toEmails.forEach (for .. of in the legacy listing) on
\* null throws a TypeError to the caller
StartMatcher(impl, id, frm, to, toNull) ==
    IF toNull THEN [IdleMatcher EXCEPT !.pc = "threw", !.impl = impl, !.emailId = id,
                                       !.toNull = TRUE]
    ELSE [IdleMatcher EXCEPT
            !.pc = IF Collected(impl, frm, to) = <<>> THEN "done" ELSE "lookup",
            !.impl = impl, !.emailId = id, !.ps = Collected(impl, frm, to), !.k = 1]

\* the call is made for a stored row that is not processed yet (the row just
\* inserted by syncEmails, or one selected by processUnprocessedEmails)
MatchBegin(r, id, impl) ==
    /\ matcher[r].pc = "idle"
    /\ id \in DOMAIN emails
    /\ ~emails[id].processed
    /\ Len(notes) < MaxNotes
    /\ matcher' = [matcher EXCEPT ![r] =
          StartMatcher(impl, id, emails[id].from_email, emails[id].to_emails, FALSE)]
    /\ UNCHANGED <<mailbox, nextUid, uidReported, uniqueKeys, decoder, importer, secret, sales,
                   emails, contacts, notes, run, client>>

\* the call is made with arguments of the caller's choosing
MatchArgs(r, id, frm, to, toNull, impl) ==
    /\ matcher[r].pc = "idle"
    /\ id \in DOMAIN emails
    /\ Len(notes) < MaxNotes
    /\ matcher' = [matcher EXCEPT ![r] = StartMatcher(impl, id, frm, to, toNull)]
    /\ UNCHANGED <<mailbox, nextUid, uidReported, uniqueKeys, decoder, importer, secret, sales,
                   emails, contacts, notes, run, client>>

\* the next address, or the end of the call
NextParticipant(m) ==
    [m EXCEPT !.k = m.k + 1, !.contact = 0,
              !.pc = IF m.k + 1 > Len(m.ps) THEN "done" ELSE "lookup"]

\* an exception inside the call: the current code has one try block around
\* everything (the call ends), the legacy listing one per recipient
Caught(m) ==
    IF m.impl = "current" THEN [m EXCEPT !.pc = "done", !.faulted = TRUE]
    ELSE [NextParticipant(m) EXCEPT !.faulted = TRUE]

\* the step after the email row has been linked
AfterLink(m) == IF m.impl = "current" THEN [m EXCEPT !.pc = "done"] ELSE NextParticipant(m)

Outcomes == {"ok", "error", "throw"}

\* one directory query: contacts whose email_jsonb contains the address,
\* .maybeSingle(); outcome is how the query ends
MatchLookup(r, outcome) ==
    LET m == matcher[r]
        hit == MaybeSingle(Holders(m.ps[m.k]))
    IN
    /\ m.pc = "lookup"
    /\ outcome \in Outcomes
    /\ matcher' = [matcher EXCEPT ![r] =
          IF outcome = "ok" THEN
             IF hit # {} THEN [m EXCEPT !.pc = "note", !.contact = CHOOSE c \in hit : TRUE]
             ELSE NextParticipant(m)
          ELSE IF outcome = "error" THEN
             [NextParticipant(m) EXCEPT !.lookupErr = TRUE, !.faulted = TRUE]
          ELSE [Caught(m) EXCEPT !.lookupErr = TRUE]]
    /\ UNCHANGED <<mailbox, nextUid, uidReported, uniqueKeys, decoder, importer, secret, sales,
                   emails, contacts, notes, run, client>>

\* insert into contactNotes
MatchNote(r, outcome) ==
    LET m == matcher[r] IN
    /\ m.pc = "note"
    /\ outcome \in Outcomes
    /\ IF outcome = "ok" THEN
          /\ notes' = Append(notes, [contact_id |-> m.contact, email |-> m.emailId])
          /\ matcher' = [matcher EXCEPT ![r] =
                [m EXCEPT !.pc = "seen", !.created = Append(m.created, m.contact)]]
       ELSE
          /\ notes' = notes
          /\ matcher' = [matcher EXCEPT ![r] =
                IF outcome = "error" THEN [m EXCEPT !.pc = "link", !.faulted = TRUE]
                ELSE Caught(m)]
    /\ UNCHANGED <<mailbox, nextUid, uidReported, uniqueKeys, decoder, importer, secret, sales,
                   emails, contacts, run, client>>

MatchSeenInsert(r, outcome) ==
    LET m == matcher[r] IN
    /\ m.pc = "seen"
    /\ outcome \in Outcomes
    /\ IF outcome = "ok" THEN
          /\ contacts' = Append(contacts, [emails |-> {m.ps[m.k]}, last_seen |-> "now"])
          /\ matcher' = [matcher EXCEPT ![r] =
                [m EXCEPT !.pc = "link", !.seen = m.seen \cup {m.contact}]]
       ELSE
          /\ contacts' = contacts
          /\ matcher' = [matcher EXCEPT ![r] =
                IF outcome = "error" THEN [m EXCEPT !.pc = "link", !.faulted = TRUE]
                ELSE Caught(m)]
    /\ UNCHANGED <<mailbox, nextUid, uidReported, uniqueKeys, decoder, importer, secret, sales,
                   emails, notes, run, client>>

\* update of the contact's last_seen; its result is not looked at
MatchSeen(r, outcome) ==
    LET m == matcher[r] IN
    /\ m.pc = "seen"
    /\ outcome \in Outcomes
    /\ IF outcome = "ok" THEN
          /\ contacts' = [contacts EXCEPT ![m.contact].last_seen = "now"]
          /\ matcher' = [matcher EXCEPT ![r] =
                [m EXCEPT !.pc = "link", !.seen = m.seen \cup {m.contact}]]
       ELSE
          /\ contacts' = contacts
          /\ matcher' = [matcher EXCEPT ![r] =
                IF outcome = "error" THEN [m EXCEPT !.pc = "link", !.faulted = TRUE]
                ELSE Caught(m)]
    /\ UNCHANGED <<mailbox, nextUid, uidReported, uniqueKeys, decoder, importer, secret, sales,
                   emails, notes, run, client>>

MatchLinkAll(r, outcome) ==
    LET m == matcher[r] IN
    /\ m.pc = "link"
    /\ outcome \in {"ok", "error"}
    /\ IF outcome = "ok" THEN
          /\ emails' = [id \in DOMAIN emails |->
                          [emails[id] EXCEPT !.contact_id = m.contact, !.processed = TRUE]]
          /\ matcher' = [matcher EXCEPT ![r] =
                AfterLink([m EXCEPT !.links = Append(m.links, m.contact)])]
       ELSE
          /\ emails' = emails
          /\ matcher' = [matcher EXCEPT ![r] = AfterLink([m EXCEPT !.faulted = TRUE])]
    /\ UNCHANGED <<mailbox, nextUid, uidReported, uniqueKeys, decoder, importer, secret, sales,
                   contacts, notes, run, client>>

\* update of the email row: contact_id and processed = true
MatchLink(r, outcome) ==
    LET m == matcher[r] IN
    /\ m.pc = "link"
    /\ outcome \in {"ok", "error"}
    /\ IF outcome = "ok" THEN
          /\ emails' = [emails EXCEPT ![m.emailId].contact_id = m.contact,
                                      ![m.emailId].processed = TRUE]
          /\ matcher' = [matcher EXCEPT ![r] =
                AfterLink([m EXCEPT !.links = Append(m.links, m.contact)])]
       ELSE
          /\ emails' = emails
          /\ matcher' = [matcher EXCEPT ![r] = AfterLink([m EXCEPT !.faulted = TRUE])]
    /\ UNCHANGED <<mailbox, nextUid, uidReported, uniqueKeys, decoder, importer, secret, sales,
                   contacts, notes, run, client>>

\* the caller goes on
MatchReturn(r) ==
    /\ matcher[r].pc \in {"done", "threw"}
    /\ matcher' = [matcher EXCEPT ![r] = IdleMatcher]
    /\ UNCHANGED <<mailbox, nextUid, uidReported, uniqueKeys, decoder, importer, secret, sales,
                   emails, contacts, notes, run, client>>

\* a row as syncEmails stores it
StoredRow(frm, to) ==
    [message_id |-> <<"hdr", 1>>, imap_uid |-> 1, from_email |-> frm,
     to_emails |-> to, processed |-> FALSE, contact_id |-> 0, sales_id |-> 1,
     src |-> 1]

SampleRows ==
    { StoredRow("s@x.com", <<"a@x.com">>),
      StoredRow("s@x.com", <<"a@x.com", "b@x.com">>),
      StoredRow("b@x.com", <<"a@x.com">>),
      StoredRow("s@x.com", <<"A@x.com">>),
      StoredRow("s@x.com", <<"z@x.com">>),
      StoredRow("a@x.com", <<"z@x.com">>) }

Contact(es) == [emails |-> es, last_seen |-> "t0"]

Directories ==
    { <<Contact({"a@x.com"})>>,
      <<Contact({"a@x.com"}), Contact({"b@x.com"})>>,
      <<Contact({"A@x.com"})>>,
      <<Contact({"a@x.com"}), Contact({"a@x.com", "b@x.com"})>>,
      <<>> }

InitMatch ==
    /\ mailbox = <<>>
    /\ nextUid = 1
    /\ uidReported = TRUE
    /\ uniqueKeys = FALSE
    /\ importer = IdleImporter
    /\ decoder = IdleDecoder
    /\ secret = NoSecret
    /\ matcher = [r \in Runs |-> IdleMatcher]
    /\ sales = <<1>>
    /\ emails \in {<<row>> : row \in SampleRows}
    /\ contacts \in Directories
    /\ notes = <<>>
    /\ run = [r \in Runs |-> IdleRun]
    /\ client = IdleClient

MatchStep(r) ==
    \/ \E outcome \in Outcomes :
          \/ MatchLookup(r, outcome)
          \/ MatchNote(r, outcome)
          \/ MatchSeen(r, outcome)
          \/ MatchLink(r, outcome)
    \/ MatchReturn(r)

\* matcher calls, one at a time, for the rows of the table; any query or write
\* of a call may fail
NextMatch ==
    \E r \in SeqRuns :
        \/ \E id \in DOMAIN emails, impl \in Impls : MatchBegin(r, id, impl)
        \/ MatchStep(r)

SpecMatch == InitMatch /\ [][NextMatch]_vars

\* argument lists a caller can pass: a list, or null
ArgLists == {<<>>, <<"a@x.com">>, <<"z@x.com", "a@x.com">>}

\* matcher calls with arguments of any shape
NextMatchAny ==
    \E r \in SeqRuns :
        \/ \E id \in DOMAIN emails, impl \in Impls : MatchBegin(r, id, impl)
        \/ \E id \in DOMAIN emails, impl \in Impls, frm \in {"s@x.com", "a@x.com"},
              to \in ArgLists, toNull \in BOOLEAN :
              (toNull => to = <<>>) /\ MatchArgs(r, id, frm, to, toNull, impl)
        \/ MatchStep(r)

SpecMatchAny == InitMatch /\ [][NextMatchAny]_vars

\* -------------------------------- the pipeline: sync and process invocations
\* rows a select with .eq("processed", false) can return
Unprocessed == {id \in DOMAIN emails : ~emails[id].processed}

\* the elements of a set of row ids as a sequence
RECURSIVE Ascending(_)
Ascending(S) ==
    IF S = {} THEN <<>>
    ELSE LET lo == CHOOSE x \in S : \A y \in S : x <= y
         IN <<lo>> \o Ascending(S \ {lo})

\* processUnprocessedEmails up to its select query
BeginProcess(bparam) ==
    IF sales = <<>>
    THEN [IdleRun EXCEPT !.pc = "done", !.action = "process", !.bparam = bparam,
                         !.fail = "nosales", !.errors = <<<<"nosales", 0>>>>]
    ELSE [IdleRun EXCEPT !.pc = "select", !.action = "process", !.bparam = bparam]

\* POST ?action=process&batchSize=n
RequestProcess(r, bparam) ==
    /\ run[r].pc = "idle"
    /\ client.pc # "calling"
    /\ run' = [run EXCEPT ![r] = BeginProcess(bparam)]
    /\ UNCHANGED <<mailbox, nextUid, uidReported, uniqueKeys, decoder, importer, secret, matcher, sales, emails,
                   contacts, notes, client>>

\* select * from emails where processed = false limit batchSize: there is no
\* order by, so any batchSize of the unprocessed rows can come back; fault is
\* the query's error
ProcSelect(r, S, fault) ==
    LET b == ClampBatchSize(run[r].bparam) IN
    /\ run[r].pc = "select"
    /\ b.k = "num" /\ b.v >= 0
    /\ S \subseteq Unprocessed
    /\ Cardinality(S) = Min(b.v, Cardinality(Unprocessed))
    /\ run' = [run EXCEPT ![r] =
          IF fault THEN [run[r] EXCEPT !.pc = "done", !.fail = "select",
                                       !.errors = <<<<"select", 0>>>>]
          ELSE IF S = {} THEN [run[r] EXCEPT !.pc = "done"]
          ELSE [run[r] EXCEPT !.pc = "rows", !.rows = Ascending(S), !.i = 1]]
    /\ UNCHANGED <<mailbox, nextUid, uidReported, uniqueKeys, decoder, importer, secret, matcher, sales, emails,
                   contacts, notes, client>>

\* the loop body of processUnprocessedEmails calls the matcher with the
\* fields of the selected row
ProcMatchBegin(r) ==
    LET id == run[r].rows[run[r].i] IN
    /\ run[r].pc = "rows"
    /\ run[r].i <= Len(run[r].rows)
    /\ matcher[r].pc = "idle"
    /\ Len(notes) < MaxNotes
    /\ matcher' = [matcher EXCEPT ![r] =
          StartMatcher("current", id, emails[id].from_email, emails[id].to_emails, FALSE)]
    /\ run' = [run EXCEPT ![r] = [run[r] EXCEPT !.pc = "rematch", !.rowId = id]]
    /\ UNCHANGED <<mailbox, nextUid, uidReported, uniqueKeys, decoder, importer, secret, sales, emails,
                   contacts, notes, client>>

\* processed.push(email.id); matched++  -- or the loop's catch
ProcMatchEnd(r) ==
    /\ run[r].pc = "rematch"
    /\ matcher[r].pc \in {"done", "threw"}
    /\ matcher' = [matcher EXCEPT ![r] = IdleMatcher]
    /\ run' = [run EXCEPT ![r] =
          IF matcher[r].pc = "done"
          THEN [run[r] EXCEPT !.pc = "rows", !.i = run[r].i + 1,
                              !.matched = run[r].matched + 1,
                              !.processed = Append(run[r].processed, run[r].rowId)]
          ELSE [run[r] EXCEPT !.pc = "rows", !.i = run[r].i + 1,
                              !.errors = Append(run[r].errors, <<"proc", run[r].rowId>>)]]
    /\ UNCHANGED <<mailbox, nextUid, uidReported, uniqueKeys, decoder, importer, secret, sales, emails,
                   contacts, notes, client>>

\* return { processed, errors, matched }
ProcFinish(r) ==
    /\ run[r].pc = "rows"
    /\ run[r].i > Len(run[r].rows)
    /\ run' = [run EXCEPT ![r] = [run[r] EXCEPT !.pc = "done"]]
    /\ UNCHANGED <<mailbox, nextUid, uidReported, uniqueKeys, decoder, importer, secret, matcher, sales, emails,
                   contacts, notes, client>>

SyncMatchBeginAlways(r) ==
    LET m == run[r].msgs[run[r].i]
        id == IF run[r].pc = "match" THEN run[r].rowId
              ELSE CHOOSE x \in ExistingEmail(m) : TRUE
    IN
    /\ \/ run[r].pc = "match"
       \/ /\ run[r].pc = "loop"
          /\ run[r].i <= Len(run[r].msgs)
          /\ m.env = "ok"
          /\ ExistingEmail(m) # {}
    /\ matcher[r].pc = "idle"
    /\ Len(notes) < MaxNotes
    /\ matcher' = [matcher EXCEPT ![r] = StartMatcher("current", id, m.frm, m.to, FALSE)]
    /\ run' = [run EXCEPT ![r] = [run[r] EXCEPT !.pc = "matching", !.rowId = id]]
    /\ UNCHANGED <<mailbox, nextUid, uidReported, uniqueKeys, decoder, importer, secret, sales, emails,
                   contacts, notes, client>>

\* line 458: await matchEmailToContacts(storedEmail.id, fromEmail, toEmails, ...)
\* is reached when the insert has returned the new row
SyncMatchBegin(r) ==
    LET m == run[r].msgs[run[r].i] IN
    /\ run[r].pc = "match"
    /\ matcher[r].pc = "idle"
    /\ Len(notes) < MaxNotes
    /\ matcher' = [matcher EXCEPT ![r] =
          StartMatcher("current", run[r].rowId, m.frm, m.to, FALSE)]
    /\ run' = [run EXCEPT ![r] = [run[r] EXCEPT !.pc = "matching"]]
    /\ UNCHANGED <<mailbox, nextUid, uidReported, uniqueKeys, decoder, importer, secret, sales, emails,
                   contacts, notes, client>>

\* lines 459-466: matched++; processed.push(String(seq))  -- or the catch
SyncMatchEnd(r) ==
    /\ run[r].pc = "matching"
    /\ matcher[r].pc \in {"done", "threw"}
    /\ matcher' = [matcher EXCEPT ![r] = IdleMatcher]
    /\ run' = [run EXCEPT ![r] =
          IF matcher[r].pc = "done"
          THEN [run[r] EXCEPT !.pc = "loop", !.i = run[r].i + 1,
                              !.matched = run[r].matched + 1,
                              !.processed = Append(run[r].processed,
                                                   run[r].msgs[run[r].i].seq)]
          ELSE OnMessageError(r, "proc")]
    /\ UNCHANGED <<mailbox, nextUid, uidReported, uniqueKeys, decoder, importer, secret, sales, emails,
                   contacts, notes, client>>

PipeTemplates ==
    { Msg(1, "ok", "today", "s@x.com", <<"a@x.com">>),
      Msg(2, "ok", "today", "s@x.com", <<"b@x.com">>),
      Msg(0, "ok", "today", "s@x.com", <<"z@x.com">>),
      Msg(2, "badaddr", "today", "s@x.com", <<"z@x.com">>) }

PipeBoxes(n) ==
    { [k \in 1..n |-> WithUid(f[k], k)] : f \in [1..n -> PipeTemplates] }

PipeDirectory == <<Contact({"a@x.com"}), Contact({"b@x.com"})>>

InitPipe ==
    /\ mailbox \in UNION {PipeBoxes(n) : n \in 1..MaxBox}
    /\ nextUid = Len(mailbox) + 1
    /\ uidReported = TRUE
    /\ uniqueKeys \in BOOLEAN
    /\ importer = IdleImporter
    /\ decoder = IdleDecoder
    /\ secret = NoSecret
    /\ matcher = [r \in Runs |-> IdleMatcher]
    /\ sales \in {<<1>>, <<>>}
    /\ emails = <<>>
    /\ contacts = PipeDirectory
    /\ notes = <<>>
    /\ run = [r \in Runs |-> IdleRun]
    /\ client = IdleClient

\* sync and process invocations one after the other over a mailbox that does
\* not change; the session, the inserts and the matcher's writes may fail
NextPipe ==
    \E r \in SeqRuns :
        \/ \E mode \in Modes : Request(r, mode, Undefined, Absent)
        \/ \E bparam \in {Absent, Num(1)} : RequestProcess(r, bparam)
        \/ Open(r, "none")
        \/ Open(r, "session")
        \/ Check(r)
        \/ Insert(r, FALSE)
        \/ Insert(r, TRUE)
        \/ SyncMatchBegin(r)
        \/ SyncMatchEnd(r)
        \/ Finish(r)
        \/ \E S \in SUBSET DOMAIN emails, fault \in BOOLEAN : ProcSelect(r, S, fault)
        \/ ProcMatchBegin(r)
        \/ ProcMatchEnd(r)
        \/ ProcFinish(r)
        \/ \E outcome \in {"ok", "error"} :
              \/ MatchLookup(r, outcome)
              \/ MatchNote(r, outcome)
              \/ MatchSeen(r, outcome)
              \/ MatchLink(r, outcome)
        \/ Return(r)

SpecPipe == InitPipe /\ [][NextPipe]_vars

\* the table is empty, or holds a row of an earlier sync whose contact was
\* added to the directory afterwards
InitOverlap ==
    /\ mailbox \in UNION {PipeBoxes(n) : n \in 1..MaxBox}
    /\ nextUid = Len(mailbox) + 1
    /\ uidReported = TRUE
    /\ uniqueKeys \in BOOLEAN
    /\ importer = IdleImporter
    /\ decoder = IdleDecoder
    /\ secret = NoSecret
    /\ matcher = [r \in Runs |-> IdleMatcher]
    /\ sales = <<1>>
    /\ emails \in {<<>>, <<StoredRow("s@x.com", <<"a@x.com">>)>>}
    /\ contacts = PipeDirectory
    /\ notes = <<>>
    /\ run = [r \in Runs |-> IdleRun]
    /\ client = IdleClient

\* a sync invocation (slot 1) and process invocations (either slot), each free
\* to start while the other is in progress; no query or write fails
NextOverlap ==
    \/ Request(1, "incremental", Undefined, Absent)
    \/ \E r \in Runs :
          \/ RequestProcess(r, Absent)
          \/ Open(r, "none")
          \/ Check(r)
          \/ Insert(r, FALSE)
          \/ SyncMatchBegin(r)
          \/ SyncMatchEnd(r)
          \/ Finish(r)
          \/ \E S \in SUBSET DOMAIN emails : ProcSelect(r, S, FALSE)
          \/ ProcMatchBegin(r)
          \/ ProcMatchEnd(r)
          \/ ProcFinish(r)
          \/ MatchLookup(r, "ok")
          \/ MatchNote(r, "ok")
          \/ MatchSeen(r, "ok")
          \/ MatchLink(r, "ok")
          \/ Return(r)

SpecOverlap == InitOverlap /\ [][NextOverlap]_vars

\* ---------------------------------------------------- the repeated re-pass
\* the caller sends the process request again, with the same batchSize
RepeatProcess(r) ==
    /\ run[r].pc = "done"
    /\ run[r].action = "process"
    /\ run' = [run EXCEPT ![r] = BeginProcess(run[r].bparam)]
    /\ UNCHANGED <<mailbox, nextUid, uidReported, uniqueKeys, decoder, importer, secret, matcher, sales,
                   emails, contacts, notes, client>>

\* tables of two or three unprocessed rows, one of which has a participant
\* that the directory holds
RepassTables ==
    LET miss == StoredRow("s@x.com", <<"z@x.com">>)
        hit == StoredRow("s@x.com", <<"a@x.com">>)
    IN { <<hit, miss>>, <<miss, hit>>, <<miss, miss, hit>>, <<miss, hit, miss>>,
         <<hit, miss, miss>> }

InitRepass ==
    /\ mailbox = <<>>
    /\ nextUid = 1
    /\ uidReported = TRUE
    /\ uniqueKeys = FALSE
    /\ importer = IdleImporter
    /\ decoder = IdleDecoder
    /\ secret = NoSecret
    /\ matcher = [r \in Runs |-> IdleMatcher]
    /\ sales = <<1>>
    /\ emails \in RepassTables
    /\ contacts = Directory
    /\ notes = <<>>
    /\ run = [r \in Runs |-> IdleRun]
    /\ client = IdleClient

\* process invocations one after the other, with the batchSize of the first
\* request; no query or write fails
NextRepass ==
    \E r \in SeqRuns :
        \/ \E bparam \in {Absent, Num(1), Num(2)} : RequestProcess(r, bparam)
        \/ \E S \in SUBSET DOMAIN emails : ProcSelect(r, S, FALSE)
        \/ ProcMatchBegin(r)
        \/ ProcMatchEnd(r)
        \/ ProcFinish(r)
        \/ MatchLookup(r, "ok")
        \/ MatchNote(r, "ok")
        \/ MatchSeen(r, "ok")
        \/ MatchLink(r, "ok")
        \/ RepeatProcess(r)

\* every request is sent and every invocation runs on
SpecRepass == InitRepass /\ [][NextRepass]_vars /\ WF_vars(NextRepass)

\* ------------------------------------------------- messages that are skipped
\* mailboxes of three messages, one of which has no envelope, no sender or an
\* empty To list
SkipBoxes ==
    LET A == Msg(1, "ok", "today", "s@x.com", <<"a@x.com">>)
        B == Msg(3, "ok", "today", "s@x.com", <<"z@x.com">>)
        X == { Msg(2, "noenv", "today", "", <<>>),
               Msg(2, "nofrom", "today", "", <<"a@x.com">>),
               Msg(2, "noto", "today", "s@x.com", <<>>) }
    IN UNION { { <<WithUid(x, 1), WithUid(A, 2), WithUid(B, 3)>>,
                 <<WithUid(A, 1), WithUid(x, 2), WithUid(B, 3)>>,
                 <<WithUid(A, 1), WithUid(B, 2), WithUid(x, 3)>> } : x \in X }

InitSkip ==
    /\ mailbox \in SkipBoxes
    /\ nextUid = Len(mailbox) + 1
    /\ uidReported \in BOOLEAN
    /\ uniqueKeys \in BOOLEAN
    /\ importer = IdleImporter
    /\ decoder = IdleDecoder
    /\ secret = NoSecret
    /\ matcher = [r \in Runs |-> IdleMatcher]
    /\ sales = <<1>>
    /\ emails = <<>>
    /\ contacts = Directory
    /\ notes = <<>>
    /\ run = [r \in Runs |-> IdleRun]
    /\ client = IdleClient

\* sync invocations one after the other over a mailbox that does not change;
\* the insert and the note insert may fail
NextSkip ==
    \E r \in SeqRuns :
        \/ \E mode \in Modes : Request(r, mode, Undefined, Absent)
        \/ Open(r, "none")
        \/ Check(r)
        \/ Insert(r, FALSE)
        \/ Insert(r, TRUE)
        \/ Match(r, FALSE)
        \/ Match(r, TRUE)
        \/ Finish(r)
        \/ Return(r)

SpecSkip == InitSkip /\ [][NextSkip]_vars

\* ------------------------------------------------ a killed sync invocation
\* the worker is killed while the batch loop is running: its locals are lost,
\* the rows it has inserted stay in the table
Kill(r) ==
    /\ run[r].pc \in {"loop", "insert", "match"}
    /\ ~run[r].killed
    /\ run' = [run EXCEPT ![r] =
          [IdleRun EXCEPT !.pc = "killed", !.mode = run[r].mode, !.offset = run[r].offset,
                          !.bparam = run[r].bparam, !.killed = TRUE]]
    /\ UNCHANGED <<mailbox, nextUid, uidReported, uniqueKeys, decoder, importer, secret, matcher, sales, emails,
                   contacts, notes, client>>

\* the caller sends the same request again
Rerun(r) ==
    /\ run[r].pc = "killed"
    /\ run' = [run EXCEPT ![r] =
          [BeginRun(run[r].mode, run[r].offset, run[r].bparam, FALSE)
             EXCEPT !.killed = TRUE]]
    /\ UNCHANGED <<mailbox, nextUid, uidReported, uniqueKeys, decoder, importer, secret, matcher, sales, emails,
                   contacts, notes, client>>

\* mailboxes of distinct messages, with and without a Message-ID header
CrashBoxes ==
    LET A == Msg(0, "ok", "today", "s@x.com", <<"a@x.com">>)
        B == Msg(1, "ok", "today", "s@x.com", <<"z@x.com">>)
        C == Msg(2, "ok", "old", "s@x.com", <<"z@x.com">>)
    IN { <<WithUid(A, 1), WithUid(B, 2)>>, <<WithUid(B, 1), WithUid(A, 2)>>,
         <<WithUid(A, 1), WithUid(A, 2)>>, <<WithUid(C, 1), WithUid(B, 2)>> }

InitCrash ==
    /\ mailbox \in CrashBoxes
    /\ nextUid = Len(mailbox) + 1
    /\ uidReported \in BOOLEAN
    /\ uniqueKeys \in BOOLEAN
    /\ importer = IdleImporter
    /\ decoder = IdleDecoder
    /\ secret = NoSecret
    /\ matcher = [r \in Runs |-> IdleMatcher]
    /\ sales = <<1>>
    /\ emails = <<>>
    /\ contacts = Directory
    /\ notes = <<>>
    /\ run = [r \in Runs |-> IdleRun]
    /\ client = IdleClient

\* invocations one after the other, any of which may be killed in its loop
\* and is then repeated; messages may be expunged between invocations; no
\* query or write fails
NextCrash ==
    \/ \E k \in 1..MaxBox : Expunge(k)
    \/ \E r \in SeqRuns :
          \/ \E mode \in Modes : Request(r, mode, Undefined, Absent)
          \/ Open(r, "none")
          \/ Check(r)
          \/ Insert(r, FALSE)
          \/ Match(r, FALSE)
          \/ Finish(r)
          \/ Return(r)
          \/ Kill(r)
          \/ Rerun(r)

SpecCrash == InitCrash /\ [][NextCrash]_vars

\* -------------------------------------------------------- decodeMimeSubject
IsUtf8CharsetExact(charset) == charset = Text(<<"u", "t", "f", "-", "8">>)

\* charset.toLowerCase().includes('utf-8') || charset.toLowerCase().includes('utf8')
IsUtf8Charset(charset) ==
    \/ Includes(ToLowerCase(charset), Text(<<"u", "t", "f", "-", "8">>))
    \/ Includes(ToLowerCase(charset), Text(<<"u", "t", "f", "8">>))

\* the try block of the replace callback; encoding is the letter B, b, Q or q;
\* threw: an exception reaches the catch (atob rejects the payload)
DecodePayload(charset, encoding, text) ==
    IF encoding \in {66, 98} THEN
        LET a == Atob(StripSpace(text))
        IN IF ~a.ok THEN [threw |-> TRUE, text |-> <<>>]
           ELSE [threw |-> FALSE,
                 text |-> IF IsUtf8Charset(charset) THEN Utf8Decode(a.bytes) ELSE a.bytes]
    ELSE
        LET spaced == [i \in DOMAIN text |-> IF text[i] = 95 THEN 32 ELSE text[i]]
            decoded == SoftBreaksFrom(QHexFrom(spaced, 1), 1)
            uri == DecodeURIComponent(ReplaceEqQ(decoded, 1), 1)
        IN [threw |-> FALSE,
            text |-> IF IsUtf8Charset(charset) /\ uri.ok THEN uri.text ELSE decoded]

DecodeWordNoCatch(match, charset, encoding, text) ==
    DecodePayload(charset, encoding, text)

\* the replace callback: the catch returns the matched text
DecodeWord(match, charset, encoding, text) ==
    IF DecodePayload(charset, encoding, text).threw
    THEN [threw |-> FALSE, text |-> match]
    ELSE DecodePayload(charset, encoding, text)

\* /=\?([^?]+)\?([BQbq])\?([^?]+)\?=/ tried at position i: the groups and the
\* last position of the match, end = 0 when it does not match there
MatchAt(s, i) ==
    LET \* the position of the first "?" at or after j, 0 when there is none
        NextQ(j) ==
            IF \E k \in j..Len(s) : s[k] = 63
            THEN CHOOSE k \in j..Len(s) : s[k] = 63 /\ \A l \in j..(k - 1) : s[l] # 63
            ELSE 0
        q1 == NextQ(i + 2)
        q2 == IF q1 = 0 THEN 0 ELSE NextQ(q1 + 3)
    IN IF /\ i + 1 <= Len(s) /\ s[i] = 61 /\ s[i + 1] = 63
          /\ q1 > i + 2
          /\ q1 + 2 <= Len(s) /\ s[q1 + 1] \in {66, 81, 98, 113} /\ s[q1 + 2] = 63
          /\ q2 > q1 + 3
          /\ q2 + 1 <= Len(s) /\ s[q2 + 1] = 61
       THEN [end |-> q2 + 1, charset |-> SubSeq(s, i + 2, q1 - 1),
             encoding |-> s[q1 + 1], text |-> SubSeq(s, q1 + 3, q2 - 1)]
       ELSE [end |-> 0, charset |-> <<>>, encoding |-> 0, text |-> <<>>]

\* encoded.replace(mimeWordPattern, callback) from position i on
RECURSIVE ReplaceWords(_, _)
ReplaceWords(s, i) ==
    IF i > Len(s) THEN [threw |-> FALSE, text |-> <<>>]
    ELSE LET m == MatchAt(s, i)
             w == IF m.end = 0 THEN [threw |-> FALSE, text |-> <<s[i]>>]
                  ELSE DecodeWord(SubSeq(s, i, m.end), m.charset, m.encoding, m.text)
             rest == ReplaceWords(s, IF m.end = 0 THEN i + 1 ELSE m.end + 1)
         IN [threw |-> w.threw \/ rest.threw, text |-> w.text \o rest.text]

\* the value the function returns, or threw when an exception leaves it
decodeMimeSubject(encoded) ==
    IF encoded = <<>> THEN [threw |-> FALSE, text |-> <<>>] ELSE ReplaceWords(encoded, 1)

\* ---- the headers the function is given
\* the UTF-8 encoding of a string of code points below U+10000
RECURSIVE Utf8Encode(_)
Utf8Encode(t) ==
    IF t = <<>> THEN <<>>
    ELSE (IF Head(t) < 128 THEN <<Head(t)>>
          ELSE IF Head(t) < 2048 THEN <<192 + (Head(t) \div 64), 128 + (Head(t) % 64)>>
          ELSE <<224 + (Head(t) \div 4096), 128 + ((Head(t) \div 64) % 64),
                 128 + (Head(t) % 64)>>)
         \o Utf8Encode(Tail(t))

\* the base64 text of a byte sequence, as a sender writes it
Btoa(b) ==
    LET byte(j) == IF j <= Len(b) THEN b[j] ELSE 0
        digit(v) == IF v < 26 THEN 65 + v ELSE IF v < 52 THEN 71 + v
                    ELSE IF v < 62 THEN v - 4 ELSE IF v = 62 THEN 43 ELSE 47
        char(k) == LET bit == 6 * (k - 1)
                       j == bit \div 8
                       shift == 10 - (bit % 8)
                   IN IF bit >= 8 * Len(b) THEN 61
                      ELSE digit(((byte(j + 1) * 256 + byte(j + 2)) \div (2 ^ shift)) % 64)
    IN [k \in 1..(4 * ((Len(b) + 2) \div 3)) |-> char(k)]

\* the Q encoding of a byte sequence (RFC 2047): "_" for a space, =XX for
\* every byte that is not a letter or a digit
QEncode(b) ==
    LET hex(v) == IF v < 10 THEN 48 + v ELSE 55 + v
        enc(c) == IF c = 32 THEN <<95>>
                  ELSE IF c \in 48..57 \/ c \in 65..90 \/ c \in 97..122 THEN <<c>>
                  ELSE <<61, hex(c \div 16), hex(c % 16)>>
    IN Concat([i \in DOMAIN b |-> enc(b[i])])

\* one token of a header.  kind "word": the encoded word a sender writes for
\* the text plain, whose bytes are the UTF-8 encoding of plain; any other kind:
\* a token that is written as it stands
Token(kind, charset, encoding, plain, input) ==
    [kind |-> kind, charset |-> charset, encoding |-> encoding, plain |-> plain,
     bytes |-> Utf8Encode(plain), input |-> input]

Word(charset, encoding, plain) ==
    Token("word", charset, encoding, plain,
          Text(<<"=", "?">>) \o charset \o <<63, encoding, 63>>
          \o (IF encoding \in {66, 98} THEN Btoa(Utf8Encode(plain))
              ELSE QEncode(Utf8Encode(plain)))
          \o Text(<<"?", "=">>))

Literal(kind, input) == Token(kind, <<>>, 0, <<>>, input)

\* the encoded words for Hello, Café, "a b" and €5 under five charset names,
\* with the encoding letter in either case
Words ==
    LET Charsets ==
            { Text(<<"u", "t", "f", "-", "8">>), Text(<<"U", "T", "F", "-", "8">>),
              Text(<<"u", "t", "f", "8">>),
              Text(<<"i", "s", "o", "-", "8", "8", "5", "9", "-", "1">>),
              Text(<<"u", "s", "-", "a", "s", "c", "i", "i">>) }
        Plains ==
            { Text(<<"H", "e", "l", "l", "o">>), Text(<<"C", "a", "f">>) \o <<233>>,
              Text(<<"a", " ", "b">>), <<8364, 53>> }
    IN { Word(cs, e, p) : cs \in Charsets, e \in {66, 98, 81, 113}, p \in Plains }

\* =?broken?=, an encoding letter that is neither B nor Q, an empty payload,
\* a word without its end, plain text
Malformed ==
    { Literal("malformed", Text(<<"=", "?", "b", "r", "o", "k", "e", "n", "?", "=">>)),
      Literal("malformed", Text(<<"=", "?", "u", "t", "f", "-", "8", "?", "X", "?",
                                  "S", "G", "k", "=", "?", "=">>)),
      Literal("malformed", Text(<<"=", "?", "u", "t", "f", "-", "8", "?", "B", "?", "?", "=">>)),
      Literal("malformed", Text(<<"=", "?", "u", "t", "f", "-", "8", "?", "B", "?",
                                  "S", "G", "k", "=">>)),
      Literal("malformed", Text(<<"R", "e", ":">>)) }

\* encoded words whose payload atob rejects: a character outside the
\* alphabet, a length of 4n + 1
Undecodable ==
    { Literal("undecodable", Text(<<"=", "?", "u", "t", "f", "-", "8", "?", "B", "?",
                                    "!", "!", "!", "?", "=">>)),
      Literal("undecodable", Text(<<"=", "?", "i", "s", "o", "-", "8", "8", "5", "9", "-", "1",
                                    "?", "b", "?", "S", "G", "V", "s", "b", "?", "=">>)) }

\* the tokens that headers of two tokens are made of
PairTokens ==
    { t \in Words : t.charset = Text(<<"u", "t", "f", "-", "8">>) /\ t.encoding = 66 }
    \cup { Word(Text(<<"u", "s", "-", "a", "s", "c", "i", "i">>), 81, Text(<<"a", " ", "b">>)) }
    \cup Malformed \cup Undecodable

\* a header value: its tokens, separated by one space
Header(ts) ==
    [tokens |-> ts,
     input |-> IF Len(ts) = 1 THEN ts[1].input ELSE ts[1].input \o <<32>> \o ts[2].input]

Subjects ==
    { Header(<<t>>) : t \in Words \cup Malformed \cup Undecodable }
    \cup { Header(<<t, u>>) : t \in PairTokens, u \in PairTokens }
    \cup { [tokens |-> <<>>, input |-> <<>>] }

\* line 316: const decodedSubject = decodeMimeSubject(rawSubject)
DecodeSubject ==
    /\ decoder.pc = "subject"
    /\ decoder' = [decoder EXCEPT !.pc = "decoded",
                                  !.out = decodeMimeSubject(decoder.call.input)]
    /\ UNCHANGED <<mailbox, nextUid, uidReported, uniqueKeys, importer, secret, matcher, sales, emails,
                   contacts, notes, run, client>>

InitSubject ==
    /\ mailbox = <<>>
    /\ nextUid = 1
    /\ uidReported = TRUE
    /\ uniqueKeys = FALSE
    /\ importer = IdleImporter
    /\ decoder \in {[pc |-> "subject", call |-> h, out |-> <<>>] : h \in Subjects}
    /\ secret = NoSecret
    /\ matcher = [r \in Runs |-> IdleMatcher]
    /\ sales = <<1>>
    /\ emails = <<>>
    /\ contacts = <<>>
    /\ notes = <<>>
    /\ run = [r \in Runs |-> IdleRun]
    /\ client = IdleClient

\* the function applied to one subject header
SpecSubject == InitSubject /\ [][DecodeSubject]_vars

\* ---------------------------------- body extraction from the raw message
\* (the listing that parses message.raw by hand)
\* String.prototype.split(separator)
RECURSIVE Split(_, _)
Split(s, sep) ==
    LET at == {i \in 1..(Len(s) - Len(sep) + 1) : SubSeq(s, i, i + Len(sep) - 1) = sep}
        i == CHOOSE x \in at : \A y \in at : x <= y
    IN IF at = {} THEN <<s>>
       ELSE <<SubSeq(s, 1, i - 1)>> \o Split(SubSeq(s, i + Len(sep), Len(s)), sep)

\* s.match(/\r?\n\r?\n/): at is the position of the first match (the match's
\* index + 1), 0 when there is none; len is its length
BlankLine(s) ==
    LET is(i, c) == i <= Len(s) /\ s[i] = c
        len(i) == IF is(i, 13) /\ is(i + 1, 10) /\ is(i + 2, 13) /\ is(i + 3, 10) THEN 4
                  ELSE IF is(i, 13) /\ is(i + 1, 10) /\ is(i + 2, 10) THEN 3
                  ELSE IF is(i, 10) /\ is(i + 1, 13) /\ is(i + 2, 10) THEN 3
                  ELSE IF is(i, 10) /\ is(i + 1, 10) THEN 2
                  ELSE 0
        at == {i \in 1..Len(s) : len(i) > 0}
        first == CHOOSE x \in at : \A y \in at : x <= y
    IN IF at = {} THEN [at |-> 0, len |-> 0] ELSE [at |-> first, len |-> len(first)]

\* headers.match(/^Name:\s*([^\r\n]+)/im): name is the field name with its
\* colon, in lower case; the first line that begins with it and has a value
HeaderField(h, name) ==
    LET eol(c) == c \in {10, 13}
        \* where the value starts when the name is at i: \s* gives back what
        \* it must for [^\r\n]+ to have a character
        starts(i) ==
            LET p == i + Len(name)
                ws == Cardinality({n \in 1..(Len(h) - p + 1) :
                                     \A k \in 0..(n - 1) : IsSpace(h[p + k])})
            IN {p + m : m \in {n \in 0..ws : p + n <= Len(h) /\ ~eol(h[p + n])}}
        hit(i) ==
            /\ i = 1 \/ eol(h[i - 1])
            /\ i + Len(name) - 1 <= Len(h)
            /\ ToLowerCase(SubSeq(h, i, i + Len(name) - 1)) = name
            /\ starts(i) # {}
        hits == {i \in 1..Len(h) : hit(i)}
        i0 == CHOOSE x \in hits : \A y \in hits : x <= y
        from == CHOOSE x \in starts(i0) : \A y \in starts(i0) : x >= y
        n == Cardinality({m \in 1..(Len(h) - from + 1) :
                            \A k \in 0..(m - 1) : ~eol(h[from + k])})
    IN IF hits = {} THEN [found |-> FALSE, value |-> <<>>]
       ELSE [found |-> TRUE, value |-> SubSeq(h, from, from + n - 1)]

\* contentType.match(/boundary="?([^";\s]+)"?/i)
Boundary(ct) ==
    LET key == Text(<<"b", "o", "u", "n", "d", "a", "r", "y", "=">>)
        stop(c) == c \in {34, 59} \/ IsSpace(c)
        from(i) == IF i + 9 <= Len(ct) /\ ct[i + 9] = 34 THEN i + 10 ELSE i + 9
        n(i) == Cardinality({m \in 1..(Len(ct) - from(i) + 1) :
                               \A k \in 0..(m - 1) : ~stop(ct[from(i) + k])})
        hits == {i \in 1..(Len(ct) - 8) :
                    ToLowerCase(SubSeq(ct, i, i + 8)) = key /\ n(i) > 0}
        i0 == CHOOSE x \in hits : \A y \in hits : x <= y
    IN IF hits = {} THEN [found |-> FALSE, value |-> <<>>]
       ELSE [found |-> TRUE, value |-> SubSeq(ct, from(i0), from(i0) + n(i0) - 1)]

\* the try block around the transfer decoding: base64 is decoded and read as
\* UTF-8, quoted-printable is decoded one character per byte; when atob
\* throws, the catch logs and the content stays as it was
TransferDecode(encoding, content) ==
    IF encoding = Text(<<"b", "a", "s", "e", "6", "4">>)
    THEN IF Atob(StripSpace(content)).ok
         THEN Utf8Decode(Atob(StripSpace(content)).bytes) ELSE content
    ELSE IF encoding = Text(<<"q", "u", "o", "t", "e", "d", "-", "p", "r", "i", "n", "t", "a",
                           "b", "l", "e">>)
    THEN QHexFrom(SoftBreaksFrom(content, 1), 1)
    ELSE content

ExtractPartAnyType(part) ==
    LET m == BlankLine(part)
        partHeaders == SubSeq(part, 1, m.at - 1)
        partContent == SubSeq(part, m.at + m.len, Len(part))
        cth == HeaderField(partHeaders, Text(<<"c", "o", "n", "t", "e", "n", "t", "-", "t",
                                               "y", "p", "e", ":">>))
        partContentType == IF cth.found THEN ToLowerCase(cth.value) ELSE Text(<<"t", "e", "x", "t", "/", "p", "l", "a", "i", "n">>)
        cte == HeaderField(partHeaders, Text(<<"c", "o", "n", "t", "e", "n", "t", "-", "t",
                                               "r", "a", "n", "s", "f", "e", "r", "-", "e",
                                               "n", "c", "o", "d", "i", "n", "g", ":">>))
        partEncoding == IF cte.found THEN ToLowerCase(cte.value) ELSE <<>>
        decodedPart == TransferDecode(partEncoding, Trim(partContent))
    IN IF Trim(part) = <<>> \/ Trim(part) = <<45, 45>> \/ m.at <= 1
       THEN [text |-> <<>>, html |-> <<>>]
       ELSE IF Includes(partContentType, Text(<<"h", "t", "m", "l">>))
       THEN [text |-> <<>>, html |-> decodedPart]
       ELSE [text |-> decodedPart, html |-> <<>>]

\* the body of the loop over the parts: what one part adds to bodyText and
\* bodyHtml
ExtractPart(part) ==
    LET m == BlankLine(part)
        partHeaders == SubSeq(part, 1, m.at - 1)
        partContent == SubSeq(part, m.at + m.len, Len(part))
        cth == HeaderField(partHeaders, Text(<<"c", "o", "n", "t", "e", "n", "t", "-", "t",
                                               "y", "p", "e", ":">>))
        partContentType == IF cth.found THEN ToLowerCase(cth.value) ELSE Text(<<"t", "e", "x", "t", "/", "p", "l", "a", "i", "n">>)
        cte == HeaderField(partHeaders, Text(<<"c", "o", "n", "t", "e", "n", "t", "-", "t",
                                               "r", "a", "n", "s", "f", "e", "r", "-", "e",
                                               "n", "c", "o", "d", "i", "n", "g", ":">>))
        partEncoding == IF cte.found THEN ToLowerCase(cte.value) ELSE <<>>
        decodedPart == TransferDecode(partEncoding, Trim(partContent))
    IN IF Trim(part) = <<>> \/ Trim(part) = <<45, 45>> \/ m.at <= 1
       THEN [text |-> <<>>, html |-> <<>>]
       ELSE IF Includes(partContentType, Text(<<"t", "e", "x", "t", "/", "h", "t", "m", "l">>))
       THEN [text |-> <<>>, html |-> decodedPart]
       ELSE IF Includes(partContentType, Text(<<"t", "e", "x", "t", "/", "p", "l", "a", "i", "n">>))
       THEN [text |-> decodedPart, html |-> <<>>]
       ELSE [text |-> <<>>, html |-> <<>>]

\* from "if (rawMessage)" to the end of the parsing: bodyText and bodyHtml
ExtractBody(rawMessage) ==
    LET m == BlankLine(rawMessage)
        headers == SubSeq(rawMessage, 1, m.at - 1)
        rawBody == SubSeq(rawMessage, m.at + m.len, Len(rawMessage))
        cth == HeaderField(headers, Text(<<"c", "o", "n", "t", "e", "n", "t", "-", "t",
                                               "y", "p", "e", ":">>))
        contentType == IF cth.found THEN cth.value ELSE Text(<<"t", "e", "x", "t", "/", "p", "l", "a", "i", "n">>)
        b == Boundary(contentType)
        parts == Split(rawBody, <<45, 45>> \o b.value)
        cte == HeaderField(headers, Text(<<"c", "o", "n", "t", "e", "n", "t", "-", "t",
                                               "r", "a", "n", "s", "f", "e", "r", "-", "e",
                                               "n", "c", "o", "d", "i", "n", "g", ":">>))
        encoding == IF cte.found THEN ToLowerCase(cte.value) ELSE <<>>
        decodedBody == TransferDecode(encoding, Trim(rawBody))
    IN IF m.at <= 1 THEN [text |-> <<>>, html |-> <<>>]
       ELSE IF Includes(ToLowerCase(contentType), Text(<<"m", "u", "l", "t", "i", "p", "a", "r", "t">>)) THEN
            IF ~b.found THEN [text |-> <<>>, html |-> <<>>]
            ELSE [text |-> Concat([k \in DOMAIN parts |-> ExtractPart(parts[k]).text]),
                  html |-> Concat([k \in DOMAIN parts |-> ExtractPart(parts[k]).html])]
       ELSE IF Includes(ToLowerCase(contentType), Text(<<"t", "e", "x", "t", "/", "h", "t", "m", "l">>))
       THEN [text |-> <<>>, html |-> decodedBody]
       ELSE [text |-> decodedBody, html |-> <<>>]

\* ---- the raw messages the parser is given
\* a MIME part as a sender writes it: its Content-Type and
\* Content-Transfer-Encoding values (<<>>: the header line is absent), its
\* content as transmitted, and the text that content stands for; ok is
\* FALSE for content that its transfer encoding cannot decode
Part(ctype, cte, content, plain) ==
    [ctype |-> ctype, cte |-> cte, content |-> content, plain |-> plain, ok |-> TRUE]

BodyParts ==
    { Part(Text(<<"t", "e", "x", "t", "/", "p", "l", "a", "i", "n">>), <<>>, Text(<<"H", "i">>), Text(<<"H", "i">>)),
      Part(Text(<<"t", "e", "x", "t", "/", "h", "t", "m", "l">>), <<>>, Text(<<"<", "p", ">", "H", "i", "<", "/", "p", ">">>), Text(<<"<", "p", ">", "H", "i", "<", "/", "p", ">">>)),
      Part(Text(<<"t", "e", "x", "t", "/", "p", "l", "a", "i", "n", ";", " ", "c", "h",
                  "a", "r", "s", "e", "t", "=", "u", "t", "f", "-", "8">>), Text(<<"b", "a", "s", "e", "6", "4">>),
           Btoa(Utf8Encode(Text(<<"C", "a", "f">>) \o <<233>>)), Text(<<"C", "a", "f">>) \o <<233>>),
      Part(Text(<<"T", "e", "x", "t", "/", "H", "T", "M", "L", ";", " ", "c", "h", "a",
                  "r", "s", "e", "t", "=", "U", "T", "F", "-", "8">>), Text(<<"Q", "u", "o", "t", "e", "d", "-", "P", "r", "i", "n", "t", "a", "b",
                  "l", "e">>), Text(<<"<", "b", ">", "a", "=", "3", "D", "b", "<", "/", "b", ">">>), Text(<<"<", "b", ">", "a", "=", "b", "<", "/", "b", ">">>)),
      Part(<<>>, Text(<<"7", "b", "i", "t">>), Text(<<"H", "i">>), Text(<<"H", "i">>)),
      Part(<<>>, <<>>, Text(<<"H", "i">>), Text(<<"H", "i">>)),
      Part(Text(<<"a", "p", "p", "l", "i", "c", "a", "t", "i", "o", "n", "/", "p", "d", "f">>), Text(<<"b", "a", "s", "e", "6", "4">>), Text(<<"J", "V", "B", "E", "R", "g", "=", "=">>), Text(<<"%", "P", "D", "F">>)),
      [Part(Text(<<"t", "e", "x", "t", "/", "p", "l", "a", "i", "n">>),
            Text(<<"b", "a", "s", "e", "6", "4">>), Text(<<"!", "!", "!">>), <<>>)
         EXCEPT !.ok = FALSE] }

\* the text of a message: header block, empty line, optional preamble, and
\* for every part the delimiter line, the part's header lines, an empty line
\* and the content; then the closing delimiter
Compose(contentType, preamble, ps) ==
    LET crlf == <<13, 10>>
        line(name, value) == IF value = <<>> THEN <<>> ELSE name \o <<32>> \o value \o crlf
        part(p) == Text(<<"-", "-", "X", "Y", "Z">>) \o crlf
                   \o line(Text(<<"C", "o", "n", "t", "e", "n", "t", "-", "T", "y", "p", "e",
                               ":">>), p.ctype) \o line(Text(<<"C", "o", "n", "t", "e", "n", "t", "-", "T", "r", "a", "n",
                               "s", "f", "e", "r", "-", "E", "n", "c", "o", "d", "i", "n",
                               "g", ":">>), p.cte)
                   \o crlf \o p.content \o crlf
    IN [parts |-> ps,
        raw |-> Text(<<"M", "I", "M", "E", "-", "V", "e", "r", "s", "i", "o", "n", ":",
                          " ", "1", ".", "0">>) \o crlf \o line(Text(<<"C", "o", "n", "t", "e", "n", "t", "-", "T", "y", "p", "e",
                               ":">>), contentType) \o crlf
                \o preamble
                \o Concat([k \in DOMAIN ps |-> part(ps[k])])
                \o Text(<<"-", "-", "X", "Y", "Z">>) \o <<45, 45>> \o crlf]

RawMessages ==
    { Compose(ct, pre, ps) :
        ct \in { Text(<<"m", "u", "l", "t", "i", "p", "a", "r", "t", "/", "m", "i", "x",
                        "e", "d", ";", " ", "b", "o", "u", "n", "d", "a", "r", "y", "=",
                        "X", "Y", "Z">>),
                 Text(<<"m", "u", "l", "t", "i", "p", "a", "r", "t", "/", "a", "l", "t",
                        "e", "r", "n", "a", "t", "i", "v", "e", ";", " ", "b", "o", "u",
                        "n", "d", "a", "r", "y", "=", "quote", "X", "Y", "Z", "quote">>) },
        pre \in { <<>>, Text(<<"T", "h", "i", "s", " ", "i", "s", " ", "a", " ", "M", "I", "M",
                        "E", " ", "m", "e", "s", "s", "a", "g", "e", ".">>) \o <<13, 10, 13, 10>> },
        ps \in {<<p>> : p \in BodyParts} \cup {<<p, q>> : p \in BodyParts, q \in BodyParts} }

\* the body of the fetched message is extracted
DecodeBody ==
    /\ decoder.pc = "body"
    /\ decoder' = [decoder EXCEPT !.pc = "decoded", !.out = ExtractBody(decoder.call.raw)]
    /\ UNCHANGED <<mailbox, nextUid, uidReported, uniqueKeys, importer, secret, matcher, sales, emails,
                   contacts, notes, run, client>>

InitBody ==
    /\ mailbox = <<>>
    /\ nextUid = 1
    /\ uidReported = TRUE
    /\ uniqueKeys = FALSE
    /\ importer = IdleImporter
    /\ decoder \in {[pc |-> "body", call |-> m, out |-> <<>>] : m \in RawMessages}
    /\ secret = NoSecret
    /\ matcher = [r \in Runs |-> IdleMatcher]
    /\ sales = <<1>>
    /\ emails = <<>>
    /\ contacts = <<>>
    /\ notes = <<>>
    /\ run = [r \in Runs |-> IdleRun]
    /\ client = IdleClient

\* the parser applied to one raw message
SpecBody == InitBody /\ [][DecodeBody]_vars

\* ------------------------------------ contact import: fetchRecordsWithCache
\* cache.has(name)
CacheHas(cache, name) == \E e \in cache : e.name = name

\* cache.set(name, record)
CacheSet(cache, name, id) ==
    {e \in cache : e.name # name} \cup {[name |-> name, id |-> id]}

\* for (const record of response.data) cache.set(record.name.trim(), record)
RECURSIVE CacheAll(_, _)
CacheAll(cache, records) ==
    IF records = <<>> THEN cache
    ELSE CacheAll(CacheSet(cache, Trim(Head(records).name), Head(records).id), Tail(records))

\* the call up to its first await: the names are trimmed and de-duplicated and
\* those the cache does not hold are asked of the backend
fetchRecordsWithCache(c, names) ==
    LET trimmedNames == Dedup([i \in DOMAIN names |-> Trim(names[i])])
        uncachedRecordNames ==
            SelectSeq(trimmedNames, LAMBDA name : ~CacheHas(importer.cache, name))
    IN
    /\ importer.fetch[c].pc \in {"idle", "returned"}
    /\ importer.started < MaxImports
    /\ importer' = [importer EXCEPT
          !.started = importer.started + 1,
          !.fetch[c] = [IdleFetch EXCEPT
              !.pc = IF uncachedRecordNames = <<>> THEN "creating" ELSE "listing",
              !.names = names, !.trimmedNames = trimmedNames,
              !.uncachedRecordNames = uncachedRecordNames]]
    /\ UNCHANGED <<mailbox, nextUid, uidReported, uniqueKeys, decoder, secret, matcher, sales,
                   emails, contacts, notes, run, client>>

\* the backend answers dataProvider.getList: the records whose name is in the
\* filter, by ascending id, perPage = trimmedNames.length of them at most
GetList(c) ==
    LET f == importer.fetch[c]
        ids == [k \in DOMAIN importer.table |-> k]
        hits == SelectSeq(ids, LAMBDA k : importer.table[k] \in Range(f.uncachedRecordNames))
        page == Prefix(hits, Min(Len(hits), Len(f.trimmedNames)))
    IN
    /\ f.pc = "listing"
    /\ importer' = [importer EXCEPT
          !.fetch[c].pc = "listed",
          !.fetch[c].response =
              [k \in DOMAIN page |-> [id |-> page[k], name |-> importer.table[page[k]]]]]
    /\ UNCHANGED <<mailbox, nextUid, uidReported, uniqueKeys, decoder, secret, matcher, sales,
                   emails, contacts, notes, run, client>>

\* the answer arrives: the records are put into the cache, and every callback
\* of the Promise.all runs up to its await, calling dataProvider.create for a
\* name the cache does not hold
Listed(c) ==
    LET f == importer.fetch[c]
        cache == CacheAll(importer.cache, f.response)
        missing == SelectSeq(f.uncachedRecordNames, LAMBDA name : ~CacheHas(cache, name))
    IN
    /\ f.pc = "listed"
    /\ importer' = [importer EXCEPT
          !.cache = cache,
          !.creates = importer.creates \o missing,
          !.fetch[c].pc = "creating",
          !.fetch[c].pending = Range(missing)]
    /\ UNCHANGED <<mailbox, nextUid, uidReported, uniqueKeys, decoder, secret, matcher, sales,
                   emails, contacts, notes, run, client>>

\* the backend carries out one dataProvider.create
Create(c, name) ==
    LET f == importer.fetch[c] IN
    /\ f.pc = "creating"
    /\ name \in f.pending
    /\ importer' = [importer EXCEPT
          !.table = Append(importer.table, name),
          !.fetch[c].pending = f.pending \ {name},
          !.fetch[c].created =
              f.created \cup {[name |-> name, id |-> Len(importer.table) + 1]}]
    /\ UNCHANGED <<mailbox, nextUid, uidReported, uniqueKeys, decoder, secret, matcher, sales,
                   emails, contacts, notes, run, client>>

\* its answer arrives: cache.set(name, response.data)
Created(c, e) ==
    LET f == importer.fetch[c] IN
    /\ f.pc = "creating"
    /\ e \in f.created
    /\ importer' = [importer EXCEPT
          !.cache = CacheSet(importer.cache, e.name, e.id),
          !.fetch[c].created = f.created \ {e}]
    /\ UNCHANGED <<mailbox, nextUid, uidReported, uniqueKeys, decoder, secret, matcher, sales,
                   emails, contacts, notes, run, client>>

\* the Promise.all has resolved: the map of the requested names is returned;
\* cache.get of a name the cache does not hold is undefined (no entry here)
Fetched(c) ==
    LET f == importer.fetch[c] IN
    /\ f.pc = "creating"
    /\ f.pending = {}
    /\ f.created = {}
    /\ importer' = [importer EXCEPT
          !.fetch[c].pc = "returned",
          !.fetch[c].result = {e \in importer.cache : e.name \in Range(f.trimmedNames)}]
    /\ UNCHANGED <<mailbox, nextUid, uidReported, uniqueKeys, decoder, secret, matcher, sales,
                   emails, contacts, notes, run, client>>

\* the company names of one batch of the imported file: Acme, Acme with
\* blanks around it, Bolt
ImportBatches ==
    { <<Text(<<"A", "c", "m", "e">>)>>,
      <<Text(<<" ", "A", "c", "m", "e">>), Text(<<"A", "c", "m", "e", " ">>)>>,
      <<Text(<<"A", "c", "m", "e">>), Text(<<"B", "o", "l", "t">>)>>,
      <<Text(<<"B", "o", "l", "t">>)>> }

InitImport ==
    /\ mailbox = <<>>
    /\ nextUid = 1
    /\ uidReported = TRUE
    /\ uniqueKeys = FALSE
    /\ decoder = IdleDecoder
    /\ importer \in {[IdleImporter EXCEPT !.table = t] :
                       t \in {<<>>, <<Text(<<"B", "o", "l", "t">>)>>}}
    /\ secret = NoSecret
    /\ matcher = [r \in Runs |-> IdleMatcher]
    /\ sales = <<1>>
    /\ emails = <<>>
    /\ contacts = <<>>
    /\ notes = <<>>
    /\ run = [r \in Runs |-> IdleRun]
    /\ client = IdleClient

\* processBatch calls getCompanies for every batch; a call may start while
\* another one is waiting for the backend; no request fails
NextImport ==
    \E c \in Runs :
        \/ \E names \in ImportBatches : fetchRecordsWithCache(c, names)
        \/ GetList(c)
        \/ Listed(c)
        \/ \E name \in importer.fetch[c].pending : Create(c, name)
        \/ \E e \in importer.fetch[c].created : Created(c, e)
        \/ Fetched(c)

SpecImport == InitImport /\ [][NextImport]_vars

\* =================================================================== claims

\* C1: after any sequence of invocations that do not overlap, no two rows of
\* the emails table have the same message_id and no two have the same imap_uid.
C1_NoDuplicateRows ==
    \A i, j \in DOMAIN emails :
        i # j => /\ emails[i].message_id # emails[j].message_id
                 /\ emails[i].imap_uid # emails[j].imap_uid

\* C2: when a request is repeated with the same arguments over an unchanged
\* mailbox, and the first run reported no error, the second run inserts no row.
C2_SecondRunInsertsNothing ==
    \A r \in Runs :
        run[r].pc = "done" /\ run[r].second /\ run[r].firstClean => run[r].ins = {}

\* the identifiers the search returns that are greater than the offset
Candidates(r) ==
    {id \in Range(Search(mailbox, run[r].mode)) :
        run[r].offset = Undefined \/ id > run[r].offset[1]}

\* the candidates left after removing the batch selected in this invocation
Remaining(r) == Candidates(r) \ Range(run[r].batch)

\* the invocation got its search result (it returns from inside the try block
\* or from the catch block after a failed fetch)
Searched(r) == run[r].pc = "done" /\ run[r].fail \in {"none", "fetch"}

\* C7 (as stated): the returned hasMore is true exactly when a candidate is
\* left after removing the selected batch.
C7_HasMoreAsStated ==
    \A r \in Runs : Searched(r) => (run[r].hasMore <=> Remaining(r) # {})

\* C7 (amended): for an invocation whose fetch succeeds, the returned hasMore
\* is true exactly when a candidate is left after removing the selected batch.
C7_HasMore ==
    \A r \in Runs :
        run[r].pc = "done" /\ run[r].fail = "none" =>
            (run[r].hasMore <=> Remaining(r) # {})

C7_Witness ==
    \E r \in Runs :
        /\ run[r].pc = "done" /\ run[r].fail = "none"
        /\ run[r].hasMore /\ run[r].batch # <<>> /\ Remaining(r) # {}

\* the invocation processed a non-empty batch
ProcessedBatch(r) ==
    run[r].pc = "done" /\ run[r].fail = "none" /\ run[r].batch # <<>>

\* C8 (as stated): an invocation that processes a non-empty batch returns the
\* identifier of the last message of the batch as nextOffset.
C8_NextOffsetAsStated ==
    \A r \in Runs : ProcessedBatch(r) => run[r].nextOffset = Some(Last(run[r].batch))

\* C8 (amended): an invocation that processes a non-empty batch returns the
\* identifier of the last message of the batch as nextOffset when candidates
\* are left (hasMore), and undefined when none is left.
C8_NextOffset ==
    \A r \in Runs :
        ProcessedBatch(r) =>
            run[r].nextOffset = IF Remaining(r) # {} THEN Some(Last(run[r].batch))
                                ELSE Undefined

C8_Witness ==
    \E r \in Runs :
        /\ ProcessedBatch(r) /\ Remaining(r) # {}
        /\ run[r].nextOffset = Some(Last(run[r].batch))
        /\ run[r].processed # <<>>

\* sequence number, in the mailbox, of the message a row was made from
SeqOfRow(id) == {s \in DOMAIN mailbox : mailbox[s].uid = emails[id].src}

\* C9: an invocation called with offset k fetches, stores and reports no
\* message whose identifier is at most k.
C9_NothingAtOrBelowOffset ==
    \A r \in Runs :
        run[r].pc # "idle" /\ run[r].offset # Undefined =>
            /\ \A k \in DOMAIN run[r].msgs : run[r].msgs[k].seq > run[r].offset[1]
            /\ \A k \in DOMAIN run[r].processed : run[r].processed[k] > run[r].offset[1]
            /\ \A id \in run[r].ins : \A s \in SeqOfRow(id) : s > run[r].offset[1]

C9_Witness ==
    \E r \in Runs :
        /\ run[r].pc = "done" /\ run[r].offset = Some(1)
        /\ run[r].processed # <<>> /\ run[r].ins # {}
        /\ Len(mailbox) >= 2

\* error entries of the invocation that name the message with sequence number s
ErrorsFor(r, s) == {k \in DOMAIN run[r].errors : run[r].errors[k][2] = s}

Reported(r, s) == s \in Range(run[r].processed)

C3_StoredOnceUnderOverlap ==
    \A i, j \in DOMAIN emails : i # j => emails[i].src # emails[j].src

\* C4: an insert that fails on a duplicate key, because an overlapping
\* invocation stored the message first, adds no entry to errors.
C4_DuplicateKeyIsNoError ==
    \A r \in Runs : \A k \in DOMAIN run[r].errors : run[r].errors[k][1] # "dupkey"

\* the batchSize the loop sends is absent or at least 1
PositiveBatch(p) == p.k = "absent" \/ (p.k = "num" /\ p.v >= 1)

C6_AtMostCapFetched ==
    \A r \in Runs : Len(run[r].msgs) <= BatchCap /\ Len(run[r].processed) <= BatchCap

\* a session-level failure: connect, authenticate, selectMailbox or search
\* threw ("session"), or the fetch did ("fetch")
SessionFailed(r) == run[r].pc = "done" /\ run[r].fail \in {"session", "fetch"}

\* C11: when connect, authenticate, mailbox selection, search or fetch fails,
\* the invocation has written no row and no note (the failing step writes
\* nothing and nothing was written before it), and its result has exactly one
\* entry in errors, the top-level one, with hasMore false and nextOffset
\* undefined.
C11_SessionFailureAborts ==
    /\ [](\A r \in Runs :
            SessionFailed(r) =>
                /\ run[r].ins = {} /\ run[r].stored = 0 /\ run[r].matched = 0
                /\ run[r].processed = <<>>
                /\ Len(run[r].errors) = 1 /\ run[r].errors[1][1] = "imap"
                /\ ~run[r].hasMore /\ run[r].nextOffset = Undefined)
    /\ [][\A r \in Runs :
            run[r].pc # "done" /\ run'[r].pc = "done"
                /\ run'[r].fail \in {"session", "fetch"} =>
                    emails' = emails /\ notes' = notes /\ contacts' = contacts]_vars

C11_Witness ==
    \E r \in Runs :
        /\ SessionFailed(r) /\ run[r].fail = "fetch"
        /\ Len(run[r].cands) > Len(run[r].batch) /\ run[r].batch # <<>>
        /\ emails # <<>>

\* C12: the endpoint answers 500 when the mailbox connection or the
\* authentication fails, 401 when a configured secret is not presented, and
\* 200 for a completed run, per-message errors included.
C12_StatusCodes ==
    \A r \in Runs :
        run[r].pc = "done" =>
            /\ run[r].fail = "session" => ResponseStatus(r) = 500
            /\ run[r].fail = "unauthorized" => ResponseStatus(r) = 401
            /\ run[r].fail = "none" => ResponseStatus(r) = 200

\* C13: an invocation that called connect has called disconnect when it
\* returns, whatever the path: empty search, empty page, end of the batch,
\* session or fetch failure, or a disconnect that itself throws.
C13_DisconnectBeforeReturn ==
    \A r \in Runs :
        run[r].pc = "done" /\ run[r].connects > 0 => run[r].disconnects > 0

C13_Witness ==
    \E r \in Runs :
        /\ run[r].pc = "done" /\ run[r].fail = "session"
        /\ run[r].connects = 1 /\ run[r].disconnects = 1

\* a secret token is configured: the variable is set to a non-empty text
Configured == secret # NoSecret /\ secret[1] # ""

Presented(r) == run[r].auth = <<Bearer(secret[1])>>

\* C20: with a secret configured, a request other than OPTIONS whose
\* Authorization header is not exactly "Bearer <secret>" is answered 401, opens
\* no mailbox session and writes nothing; with no secret configured no request
\* is refused; an OPTIONS request is answered 204 whatever it presents.
C20_Authorization ==
    /\ [](\A r \in Runs :
            run[r].pc = "done" =>
                /\ run[r].method = "OPTIONS" =>
                      ResponseStatus(r) = 204 /\ run[r].connects = 0
                /\ run[r].method # "OPTIONS" /\ Configured /\ ~Presented(r) =>
                      /\ ResponseStatus(r) = 401
                      /\ run[r].connects = 0 /\ run[r].ins = {}
                /\ run[r].method # "OPTIONS" /\ ~Configured =>
                      ResponseStatus(r) # 401 /\ run[r].fail # "unauthorized")
    /\ [][\A r \in Runs :
            run[r].pc = "idle" /\ run'[r].fail \in {"unauthorized", "options"} =>
                /\ emails' = emails /\ notes' = notes /\ contacts' = contacts
                /\ mailbox' = mailbox]_vars

C20_Witness ==
    \E r \in Runs :
        /\ run[r].pc = "done" /\ run[r].method = "POST"
        /\ Configured /\ run[r].auth = <<"bearer s3cret">>
        /\ ResponseStatus(r) = 401 /\ mailbox # <<>>

\* the matcher call of slot r has returned to its caller
Returned(r) == matcher[r].pc = "done"

\* the stored row the call was made for
Row(r) == emails[matcher[r].emailId]

Recipients(r) == Range(Row(r).to_emails)

AllParticipants(r) == {Row(r).from_email} \cup Recipients(r)

\* contact c holds the address, as written
HoldsAddr(c, e) == e \in contacts[c].emails

\* contact c holds the address, compared without case and surrounding blanks
CiHolds(c, e) == Normalize(e) \in {Normalize(x) : x \in contacts[c].emails}

\* C14: when a recipient address of the stored message is held by a contact
\* and no query or write of the call fails, the call has created exactly one
\* note, attached to such a contact, and the row has processed = true and
\* contact_id = that contact.
C14_MatcherHit ==
    \A r \in Runs :
        /\ Returned(r) /\ ~matcher[r].faulted
        /\ \E c \in DOMAIN contacts, e \in Recipients(r) : HoldsAddr(c, e)
        => \E c \in DOMAIN contacts :
              /\ \E e \in Recipients(r) : HoldsAddr(c, e)
              /\ matcher[r].created = <<c>>
              /\ Row(r).processed /\ Row(r).contact_id = c

\* no contact holds any participant address of the message
NoHolder(r) == \A c \in DOMAIN contacts, e \in AllParticipants(r) : ~CiHolds(c, e)

MatchSet(r) == {c \in DOMAIN contacts : \E e \in AllParticipants(r) : CiHolds(c, e)}

\* participants in order: the sender, then the recipients
Ordered(r) == Participants(Row(r).from_email, Row(r).to_emails)

\* the contacts holding the first participant address that any contact holds
FirstHolders(r) ==
    LET ks == {k \in DOMAIN Ordered(r) : \E c \in DOMAIN contacts : CiHolds(c, Ordered(r)[k])}
        k0 == CHOOSE k \in ks : \A j \in ks : k <= j
    IN {c \in DOMAIN contacts : CiHolds(c, Ordered(r)[k0])}

\* C16: when the participants of a message match two or more contacts, one
\* call (of either implementation, nothing failing) creates exactly one note,
\* for the contact of the first matching participant, assigns contact_id once,
\* to that contact, and updates last_seen of no other contact.
C16_FirstMatchWins ==
    \A r \in Runs :
        Returned(r) /\ ~matcher[r].faulted /\ Cardinality(MatchSet(r)) >= 2 =>
            /\ Len(matcher[r].created) = 1
            /\ matcher[r].created[1] \in FirstHolders(r)
            /\ matcher[r].links = matcher[r].created
            /\ matcher[r].seen \subseteq Range(matcher[r].created)

\* C17: the call (nothing failing) links the message to a contact exactly
\* when some contact's email set contains, without regard to case and
\* surrounding blanks, an address of {from} union {to}.
C17_LinkedIffHeld ==
    \A r \in Runs :
        Returned(r) /\ ~matcher[r].faulted =>
            (Row(r).processed /\ Row(r).contact_id # 0 <=> MatchSet(r) # {})

\* C18: the call never throws to its caller, whatever its arguments and
\* whichever query or write fails.
C18_NeverThrows == \A r \in Runs : matcher[r].pc # "threw"

\* C19: when a directory lookup of the call returned an error, the message
\* stays processed = false with no contact_id and no note is created for it.
C19_LookupErrorLeavesUnprocessed ==
    \A r \in Runs :
        Returned(r) /\ matcher[r].lookupErr =>
            /\ ~Row(r).processed /\ Row(r).contact_id = 0
            /\ matcher[r].created = <<>>

\* an action=process invocation is in progress in slot r
InProcess(r) == run[r].action = "process" /\ run[r].pc # "idle"

\* C21: an action=process invocation opens no mailbox session and inserts no
\* row; each of its steps leaves the mailbox, the number of rows and every row
\* that already has processed = true unchanged, and it starts the matcher only
\* for a stored row whose processed flag is false.
C21_ProcessFrame ==
    /\ [](\A r \in Runs : InProcess(r) =>
             run[r].connects = 0 /\ run[r].disconnects = 0 /\ run[r].ins = {})
    /\ [][\A r \in SeqRuns : InProcess(r) =>
             /\ mailbox' = mailbox
             /\ Len(emails') = Len(emails)
             /\ \A id \in DOMAIN emails : emails[id].processed => emails'[id] = emails[id]
             /\ (matcher[r].pc = "idle" /\ matcher'[r].pc # "idle") =>
                   /\ matcher'[r].emailId \in DOMAIN emails
                   /\ ~emails[matcher'[r].emailId].processed]_vars

\* a process invocation has linked a row while another row was processed before
C21_Witness ==
    \E r \in Runs :
        /\ InProcess(r) /\ run[r].pc = "done"
        /\ \E id \in Range(run[r].processed) : emails[id].processed
        /\ \E id \in DOMAIN emails : emails[id].processed /\ id \notin Range(run[r].rows)

InSync(r) == run[r].action = "sync" /\ run[r].pc # "idle"

\* C30: within a sync invocation a matcher call is in progress only for the
\* message at hand and only for the row this invocation has just inserted for
\* it; every note written, every contact written and every row linked during
\* the invocation belongs to such a call, so a message that was skipped as a
\* duplicate or whose insert failed gets none of them.
C30_MatcherAfterInsert ==
    /\ [](\A r \in SeqRuns : InSync(r) /\ matcher[r].pc # "idle" =>
             /\ run[r].pc = "matching"
             /\ matcher[r].emailId = run[r].rowId
             /\ run[r].rowId \in run[r].ins
             /\ emails[run[r].rowId].src = run[r].msgs[run[r].i].src)
    /\ [][\A r \in SeqRuns : InSync(r) =>
             /\ notes' # notes =>
                   /\ run[r].pc = "matching"
                   /\ Last(notes').email = run[r].rowId
             /\ contacts' # contacts => run[r].pc = "matching"
             /\ \A id \in DOMAIN emails :
                   emails'[id] # emails[id] => run[r].pc = "matching" /\ id = run[r].rowId]_vars

\* the second message of a batch is being matched after its insert, the
\* first one having been skipped as a duplicate
C30_Witness ==
    \E r \in Runs :
        /\ InSync(r) /\ run[r].pc = "matching" /\ matcher[r].pc = "note"
        /\ run[r].i = 2 /\ run[r].stored = 1 /\ Len(run[r].processed) = 1

\* C23: a kill in the middle of a batch leaves the rows of the table as they
\* are, and when the repeated invocation has ended without an error every
\* message of its batch has exactly one row.
C23_CrashResumable ==
    /\ [](\A r \in SeqRuns :
             run[r].killed /\ run[r].pc = "done" /\ run[r].errors = <<>> =>
                \A k \in DOMAIN run[r].msgs :
                    Cardinality({id \in DOMAIN emails :
                                    emails[id].src = run[r].msgs[k].src}) = 1)
    /\ [][\A r \in SeqRuns : run'[r].pc = "killed" => emails' = emails]_vars

\* C29: the sync searches for unread messages and marks each message it
\* processes as read, so a message that an earlier sync has processed (it has
\* a row that this invocation did not insert) is not among the messages a
\* later sync fetches.
C29_ProcessedNotCandidateAgain ==
    \A r \in SeqRuns : InSync(r) =>
        \A k \in DOMAIN run[r].msgs, id \in DOMAIN emails :
            emails[id].src = run[r].msgs[k].src => id \in run[r].ins

\* the call has returned, for a header that is the one token t
DecodedOne(t) ==
    /\ decoder.pc = "decoded"
    /\ decoder.call.tokens = <<t>>

\* the charset names of the UTF-8 family among the names used
Utf8Names ==
    { Text(<<"u", "t", "f", "-", "8">>), Text(<<"U", "T", "F", "-", "8">>),
      Text(<<"u", "t", "f", "8">>) }

\* C24: for a base64 encoded word (encoding letter B or b) the function
\* returns, when the charset is of the UTF-8 family, the text whose UTF-8
\* encoding the payload carries, and otherwise the decoded bytes, one
\* character per byte; "=?utf-8?B?SGVsbG8=?=" gives "Hello".
C24_Base64Word ==
    /\ \A t \in Words : DecodedOne(t) /\ t.encoding \in {66, 98} =>
          /\ ~decoder.out.threw
          /\ decoder.out.text = IF t.charset \in Utf8Names THEN t.plain ELSE t.bytes
    /\ (decoder.pc = "decoded" /\ decoder.call.input =
           Text(<<"=", "?", "u", "t", "f", "-", "8", "?", "B", "?",
                  "S", "G", "V", "s", "b", "G", "8", "=", "?", "=">>))
       => decoder.out.text = Text(<<"H", "e", "l", "l", "o">>)

\* the word for Café with charset UTF-8 has been decoded
C24_Witness ==
    /\ DecodedOne(Word(Text(<<"U", "T", "F", "-", "8">>), 66, Text(<<"C", "a", "f">>) \o <<233>>))
    /\ decoder.out.text = Text(<<"C", "a", "f">>) \o <<233>>

\* C25: for a Q encoded word with a charset of the UTF-8 family the function
\* returns the text whose UTF-8 encoding the payload carries, a character of
\* several bytes written as consecutive =XX escapes becoming that one
\* character and "_" a space; "=?utf-8?Q?Caf=C3=A9?=" gives "Café".
C25_QuotedPrintableWord ==
    \A t \in Words :
        DecodedOne(t) /\ t.encoding \in {81, 113} /\ t.charset \in Utf8Names =>
            decoder.out.text = t.plain

\* tokens a conforming decoder leaves as they are
Kept(t) == t.kind \in {"malformed", "undecodable"}

\* what the claim says a token becomes
TokenText(t) == IF Kept(t) THEN t.input ELSE t.plain

\* C26: the function never throws; a token that is not a well-formed encoded
\* word, or whose base64 payload atob rejects, is returned unchanged; in a
\* header of two tokens each well-formed word is decoded and each other token
\* is left as it was.
C26_NeverThrows ==
    decoder.pc = "decoded" =>
        /\ ~decoder.out.threw
        /\ \A t \in Malformed \cup Undecodable :
              decoder.call.tokens = <<t>> => decoder.out.text = t.input
        /\ Len(decoder.call.tokens) = 2 =>
              decoder.out.text = TokenText(decoder.call.tokens[1]) \o <<32>>
                                 \o TokenText(decoder.call.tokens[2])

\* a header of an undecodable word followed by a well-formed one has been
\* decoded: the first is kept, the second decoded
C26_Witness ==
    /\ decoder.pc = "decoded"
    /\ Len(decoder.call.tokens) = 2
    /\ decoder.call.tokens[1].kind = "undecodable"
    /\ decoder.call.tokens[2].kind = "word"
    /\ decoder.out.text = decoder.call.tokens[1].input \o <<32>>
                          \o Text(<<"H", "e", "l", "l", "o">>)

\* the call has returned for a message of the parts ps
Extracted(ps) == decoder.pc = "decoded" /\ decoder.call.parts = ps

\* the media type of a part, in lower case
MediaType(p) == ToLowerCase(p.ctype)

\* what a part's content is once its transfer encoding has been undone
Decoded(p) == IF p.ok THEN p.plain ELSE p.content

\* the concatenation, in encounter order, of what the parts in S contribute
Joined(ps, S, F(_)) == Concat([k \in DOMAIN ps |-> IF k \in S THEN F(ps[k]) ELSE <<>>])

HiAndHtml ==
    /\ decoder.pc = "decoded"
    /\ Len(decoder.call.parts) = 2
    /\ decoder.call.parts[1].ctype = Text(<<"t", "e", "x", "t", "/", "p", "l", "a", "i", "n">>)
    /\ decoder.call.parts[1].cte = <<>>
    /\ decoder.call.parts[2].ctype = Text(<<"t", "e", "x", "t", "/", "h", "t", "m", "l">>)
    /\ decoder.call.parts[2].cte = <<>>
    => /\ decoder.out.text = Text(<<"H", "i">>)
       /\ decoder.out.html = Text(<<"<", "p", ">", "H", "i", "<", "/", "p", ">">>)

\* C27 as stated: every part is transfer-decoded and appended to html when its
\* media type contains "html" and to text otherwise, in encounter order.
C27_AsStated ==
    /\ decoder.pc = "decoded" /\ (\A k \in DOMAIN decoder.call.parts : decoder.call.parts[k].ok) =>
          LET ps == decoder.call.parts
              html == {k \in DOMAIN ps : Includes(MediaType(ps[k]), Text(<<"h", "t", "m", "l">>))}
          IN /\ decoder.out.html = Joined(ps, html, Decoded)
             /\ decoder.out.text = Joined(ps, DOMAIN ps \ html, Decoded)
    /\ HiAndHtml

\* the parts that have at least one header line
WithHeaders(ps) == {k \in DOMAIN ps : ps[k].ctype # <<>> \/ ps[k].cte # <<>>}

\* C27 (amended): every part that has at least one header line is
\* transfer-decoded (its content is taken as it stands when the decoding
\* fails) and appended to html when its media type contains "text/html", to
\* text when its media type contains "text/plain" or it has no Content-Type
\* header; a part of any other media type and a part without header lines are
\* dropped; in encounter order without de-duplication; for boundary XYZ with a
\* text/plain part "Hi" and a text/html part "<p>Hi</p>" the result is
\* text = "Hi", html = "<p>Hi</p>".
C27_Multipart ==
    /\ decoder.pc = "decoded" =>
          LET ps == decoder.call.parts
              html == {k \in WithHeaders(ps) :
                          Includes(MediaType(ps[k]), Text(<<"t", "e", "x", "t", "/", "h", "t", "m", "l">>))}
              text == {k \in WithHeaders(ps) \ html :
                          \/ ps[k].ctype = <<>>
                          \/ Includes(MediaType(ps[k]),
                                      Text(<<"t", "e", "x", "t", "/", "p", "l", "a", "i", "n">>))}
          IN /\ decoder.out.html = Joined(ps, html, Decoded)
             /\ decoder.out.text = Joined(ps, text, Decoded)
    /\ HiAndHtml

\* a message of a PDF part and a text/plain part has been parsed: the text is
\* the text/plain part alone
C27_Witness ==
    /\ decoder.pc = "decoded"
    /\ Len(decoder.call.parts) = 2
    /\ decoder.call.parts[1].ctype =
          Text(<<"a", "p", "p", "l", "i", "c", "a", "t", "i", "o", "n", "/", "p", "d", "f">>)
    /\ decoder.call.parts[2].ctype = Text(<<"t", "e", "x", "t", "/", "p", "l", "a", "i", "n">>)
    /\ decoder.call.parts[2].ok
    /\ decoder.out.text = Text(<<"H", "i">>)
    /\ decoder.out.html = <<>>

\* what the claim says a part contributes: nothing when it cannot be decoded
DecodedOrEmpty(p) == IF p.ok THEN p.plain ELSE <<>>

\* C28: when a part cannot be transfer-decoded it contributes the empty
\* string, and the parts next to it are extracted as usual.
C28_FailedPartIsEmpty ==
    decoder.pc = "decoded" /\ (\E k \in DOMAIN decoder.call.parts : ~decoder.call.parts[k].ok) =>
        LET ps == decoder.call.parts
            html == {k \in WithHeaders(ps) :
                        Includes(MediaType(ps[k]), Text(<<"t", "e", "x", "t", "/", "h", "t", "m", "l">>))}
            text == {k \in WithHeaders(ps) \ html :
                        \/ ps[k].ctype = <<>>
                        \/ Includes(MediaType(ps[k]),
                                    Text(<<"t", "e", "x", "t", "/", "p", "l", "a", "i", "n">>))}
        IN /\ decoder.out.html = Joined(ps, html, DecodedOrEmpty)
           /\ decoder.out.text = Joined(ps, text, DecodedOrEmpty)

\* the offset a call was given, 0 when it was given none
GivenOffset(r) == IF run[r].offset = Undefined THEN 0 ELSE run[r].offset[1]

\* C31: the caller's resume loop terminates.  Over a static mailbox, a loop
\* that has been started reaches the state in which the last answer said
\* hasMore = false, and every answer with hasMore = true carries a nextOffset
\* strictly greater than the offset of its call.
C31_ResumeLoopTerminates ==
    /\ [](\A r \in SeqRuns :
            run[r].pc = "done" /\ run[r].hasMore =>
               /\ run[r].nextOffset # Undefined
               /\ run[r].nextOffset[1] > GivenOffset(r))
    /\ (client.pc \in {"loop", "calling"} ~> client.pc = "finished")

\* a loop that ended after a call which resumed from a returned offset
C31_Witness ==
    /\ client.pc = "finished"
    /\ client.calls >= 2
    /\ ~client.broke
    /\ ~client.hasMore

\* C32: the import cache keeps a company or tag from being created twice.
\* Over any series of calls that share the cache, overlapping ones included,
\* dataProvider.create is called at most once for a trimmed name, and the map
\* a call returns has a record for every name it was asked for.
C32_OneCreatePerName ==
    /\ \A i, j \in DOMAIN importer.creates :
          importer.creates[i] = importer.creates[j] => i = j
    /\ \A c \in Runs :
          importer.fetch[c].pc = "returned" =>
             \A name \in Range(importer.fetch[c].trimmedNames) :
                CacheHas(importer.fetch[c].result, name)

\* C33: in every state of the emails table a row is processed exactly when it
\* is linked to a contact: the insert writes processed = false and no
\* contact_id, and the one update writes both columns.
C33_ProcessedIffLinked ==
    \A id \in DOMAIN emails : emails[id].processed <=> emails[id].contact_id # 0

\* a linked row next to a row that no contact matched
C33_Witness ==
    \E i, j \in DOMAIN emails :
        /\ emails[i].processed
        /\ emails[i].contact_id \in DOMAIN contacts
        /\ ~emails[j].processed
        /\ emails[j].contact_id = 0
        /\ Idle

\* the notes created for a stored email
NotesOf(id) == {k \in DOMAIN notes : notes[k].email = id}

\* C34: over sync and process invocations that do not overlap, any write of
\* which may fail, no stored email ever gets more than one note.
C34_OneNotePerEmail ==
    \A id \in DOMAIN emails : Cardinality(NotesOf(id)) <= 1

\* C35: when two process invocations, or a process and a sync invocation,
\* overlap, no stored email gets two notes, whatever the interleaving.
C35_OneNotePerEmailUnderOverlap ==
    \A id \in DOMAIN emails :
        \A j, k \in NotesOf(id) : j = k

\* two process invocations have each created a note for the same email
TwoProcessPasses ==
    \E id \in DOMAIN emails :
        /\ Cardinality(NotesOf(id)) = 2
        /\ \A r \in Runs : run[r].action = "process" /\ id \in Range(run[r].rows)

\* a sync and a process invocation have each created a note for the same email
SyncAndProcess ==
    \E id \in DOMAIN emails :
        /\ Cardinality(NotesOf(id)) = 2
        /\ run[1].action = "sync" /\ id \in run[1].ins
        /\ run[2].action = "process" /\ id \in Range(run[2].rows)

\* a contact holds one of the participant addresses of the stored email
HeldByContact(id) ==
    \E k \in DOMAIN Participants(emails[id].from_email, emails[id].to_emails) :
        Holders(Participants(emails[id].from_email, emails[id].to_emails)[k]) # {}

\* C36: the re-pass is live.  An unprocessed stored email one of whose
\* participant addresses a contact holds is eventually set to processed when
\* process invocations are repeated with a fixed batchSize, however many
\* other unprocessed emails match no contact.
C36_RepassEventuallyLinks ==
    \A id \in 1..3 :
        (id \in DOMAIN emails /\ ~emails[id].processed /\ HeldByContact(id))
            ~> (id \in DOMAIN emails /\ emails[id].processed)

\* C37: in every result syncEmails returns, stored is the number of rows this
\* invocation has inserted into the emails table, on every return path, the
\* one through the catch block after the batch loop included.
C37_StoredCountsInserts ==
    \A r \in Runs :
        run[r].pc = "done" => Result(r).stored = Cardinality(run[r].ins)

\* C38: every message an invocation fetches, stores or reports in processed
\* has an identifier that the search returned and that was selected into the
\* invocation's batch, also when the search result is not a contiguous range.
C38_OnlyTheSelectedBatch ==
    \A r \in Runs :
        run[r].pc # "idle" =>
            /\ Range(run[r].batch) \subseteq Range(Search(mailbox, run[r].mode))
            /\ \A k \in DOMAIN run[r].msgs : run[r].msgs[k].seq \in Range(run[r].batch)
            /\ \A k \in DOMAIN run[r].processed : run[r].processed[k] \in Range(run[r].batch)
            /\ \A id \in run[r].ins : SeqOfRow(id) \subseteq Range(run[r].batch)

\* a fetched message without envelope, without sender or with an empty To list
Unusable(m) == m.env \in {"noenv", "nofrom", "noto"}

\* C39: a fetched message with no envelope, no sender or an empty recipient
\* list is skipped silently: no row is made from it, it is not handed to the
\* matcher, it appears neither in processed nor in errors, and the other
\* messages of the batch are still processed (reported, or named in errors).
C39_SilentSkip ==
    \A r \in Runs :
        run[r].pc = "done" /\ run[r].fail = "none" =>
            /\ \A k \in DOMAIN run[r].msgs :
                  IF Unusable(run[r].msgs[k])
                  THEN /\ ~Reported(r, run[r].msgs[k].seq)
                       /\ ErrorsFor(r, run[r].msgs[k].seq) = {}
                       /\ \A id \in DOMAIN emails : emails[id].src # run[r].msgs[k].src
                  ELSE Reported(r, run[r].msgs[k].seq)
                       \/ ErrorsFor(r, run[r].msgs[k].seq) # {}
            /\ run[r].matched = Cardinality(run[r].ins)
            /\ \A n \in DOMAIN notes : notes[n].email \in DOMAIN emails

\* an invocation that skipped a message and stored and reported a later one
C39_Witness ==
    \E r \in Runs :
        /\ run[r].pc = "done" /\ run[r].fail = "none"
        /\ run[r].errors = <<>>
        /\ \E j, k \in DOMAIN run[r].msgs :
              /\ j < k
              /\ Unusable(run[r].msgs[j])
              /\ Reported(r, run[r].msgs[k].seq)
              /\ \E id \in run[r].ins : emails[id].src = run[r].msgs[k].src

====
